---- MODULE Spec2Model ----
(***************************************************************************)
(* Risk scoring, remaining-useful-life (RUL) simulation and budget-        *)
(* constrained monthly task scheduling of the MEP equipment graph.         *)
(*                                                                         *)
(* Scales used for the engine's real numbers:                              *)
(*   condition             hundredths          (100 = 1.0 = new)           *)
(*   time, lifespans       months              (month 0 = first simulated) *)
(*   rul                   hundredths of month (rul_years = rul / 1200)    *)
(*   ratios and factors    percent                                         *)
(*   risk_score            exact rational [num, den]                       *)
(***************************************************************************)
EXTENDS Integers, Sequences, FiniteSets, TLC

VARIABLES
    input_graph,            \* the graph supplied by the generator (never written)
    graph,                  \* the run's working copy: nodes, edges, attrs
    config,                 \* the settings object (budgets, rollover, RUL factors, seed)
    maintenance_templates,  \* maintenance task templates
    repair_templates,       \* repair/replacement task templates
    tasks,                  \* task id -> task instance (catalog + replacement backlog)
    month,                  \* index of the month being simulated
    pc,                     \* position of the driver inside the month
    rollover_time_budget,   \* time carried into the current month
    rollover_money_budget,  \* money carried into the current month
    current,                \* the record of the month being built
    monthly_records,        \* the records of the finished months, in order
    random_state,           \* state of the module-level random generator
    run,                    \* number of the simulation run over input_graph
    first_run_records,      \* monthly_records of the first run, kept for comparison
    peer                    \* a second run in the same process: its own run state

vars == <<input_graph, graph, config, maintenance_templates, repair_templates,
          tasks, month, pc, rollover_time_budget, rollover_money_budget,
          current, monthly_records, random_state, run, first_run_records, peer>>

----------------------------------------------------------------------------
(* Bounds of the model *)

NumMonths == 4

----------------------------------------------------------------------------
(* Generic helpers *)

NoValue == 0 - 1

Min2(a, b) == IF a <= b THEN a ELSE b

Max2(a, b) == IF a >= b THEN a ELSE b

RECURSIVE SumOver(_, _)
SumOver(S, f) ==
    IF S = {} THEN 0
    ELSE LET x == CHOOSE y \in S : TRUE IN f[x] + SumOver(S \ {x}, f)

RECURSIVE SeqSum(_)
SeqSum(s) == IF s = <<>> THEN 0 ELSE Head(s) + SeqSum(Tail(s))

SeqToSet(s) == {s[i] : i \in 1..Len(s)}

NoDuplicates(s) == \A i, j \in 1..Len(s) : i # j => s[i] # s[j]

(* exact rationals for the risk score *)
Rat(n, d) == [num |-> n, den |-> d]

RatLeq(a, b) == a.num * b.den <= b.num * a.den

RatLess(a, b) == a.num * b.den < b.num * a.den

RatEq(a, b) == a.num * b.den = b.num * a.den

----------------------------------------------------------------------------
(* Equipment types and their defaults *)

END_LOAD == "end_load"

DEFAULT_LIFESPANS ==
    [t \in {"utility_transformer", "transformer", "switchboard", "panelboard", "end_load"} |->
        CASE t = "utility_transformer" -> 35 * 12
          [] t = "transformer"         -> 30 * 12
          [] t = "switchboard"         -> 25 * 12
          [] t = "panelboard"          -> 20 * 12
          [] t = "end_load"            -> 15 * 12]

BASE_FAILURE_RATES ==
    [t \in {"utility_transformer", "transformer", "switchboard", "panelboard", "end_load"} |->
        CASE t = "utility_transformer" -> 15
          [] t = "transformer"         -> 20
          [] t = "switchboard"         -> 25
          [] t = "panelboard"          -> 30
          [] t = "end_load"            -> 50]

----------------------------------------------------------------------------
(* Risk scorer *)

Successors(g, S) == {e[2] : e \in {x \in g.edges : x[1] \in S}}

RECURSIVE ReachFrom(_, _, _)
ReachFrom(g, frontier, seen) ==
    LET new == Successors(g, frontier) \ seen
    IN IF new = {} THEN seen ELSE ReachFrom(g, new, seen \cup new)

(* nx.descendants: every node reachable from n along directed edges, n excluded *)
Descendants(g, n) == ReachFrom(g, {n}, {}) \ {n}

filtered_descendants_count(g, n) ==
    Cardinality({d \in Descendants(g, n) : g.attrs[d].type # END_LOAD})

(* graph.nodes[node].get('propagated_power', 0) or 0 *)
propagated_power(g, n) ==
    IF g.attrs[n].propagated_power = NoValue THEN 0 ELSE g.attrs[n].propagated_power

(* total system load: the load of the terminal loads of the graph *)
total_load(g) ==
    SumOver({n \in g.nodes : g.attrs[n].type = END_LOAD},
            [n \in g.nodes |-> propagated_power(g, n)])

RawMaxDescendants(g) ==
    LET counts == {filtered_descendants_count(g, n) : n \in g.nodes}
    IN CHOOSE c \in counts : \A d \in counts : d <= c

max_descendants_Unguarded(g) == RawMaxDescendants(g)

(* a graph without distribution descendants yields norm_descendants = 0 *)
max_descendants(g) ==
    IF RawMaxDescendants(g) = 0 THEN 1 ELSE RawMaxDescendants(g)

norm_power_Inverted(g, n) ==
    IF propagated_power(g, n) # 0 THEN Rat(total_load(g), propagated_power(g, n)) ELSE Rat(0, 1)

norm_power(g, n) ==
    IF total_load(g) # 0 THEN Rat(propagated_power(g, n), total_load(g)) ELSE Rat(0, 1)

norm_descendants(g, n) == Rat(filtered_descendants_count(g, n), max_descendants(g))

RatHalfSum(a, b) == Rat(a.num * b.den + b.num * a.den, 2 * a.den * b.den)

RatSum(a, b) == Rat(a.num * b.den + b.num * a.den, a.den * b.den)

risk_score_NoHalving(g, n) == RatSum(norm_power(g, n), norm_descendants(g, n))

(* risk = (norm_power + norm_descendants) / 2 *)
risk_score(g, n) == RatHalfSum(norm_power(g, n), norm_descendants(g, n))

----------------------------------------------------------------------------
(* RUL model *)

ExpectedLifespan(attrs) ==
    IF attrs.expected_lifespan = NoValue
    THEN DEFAULT_LIFESPANS[attrs.type]
    ELSE attrs.expected_lifespan

ElapsedMonths(attrs, date) == Max2(0, date - attrs.installation_date)

(* 1. baseline_rul = expected_lifespan - elapsed_operating_time *)
BaselineRul(attrs, date) == (ExpectedLifespan(attrs) - ElapsedMonths(attrs, date)) * 100

(* a task of the node is overdue beyond its frequency window *)
HasOverdueTask(tk, n, date) ==
    \E id \in DOMAIN tk :
        /\ tk[id].equipment_id = n
        /\ ~tk[id].is_replacement
        /\ date - tk[id].next_due_date > tk[id].recommended_frequency_months

(* 2. deferred-maintenance penalty *)
DefermentPenalty(cfg, attrs, overdue) ==
    LET base == attrs.deferred_task_count * cfg.TASK_DEFERMENT_FACTOR
    IN IF overdue THEN (base * cfg.OVERDUE_IMPACT_MULTIPLIER) \div 100 ELSE base

(* 3. aging factor, clamped to MAX_AGING_MULTIPLIER *)
AgingFactor(cfg, attrs, date) ==
    Min2(100 + (cfg.AGING_ACCELERATION_FACTOR * ElapsedMonths(attrs, date)) \div 12,
         cfg.MAX_AGING_MULTIPLIER)

(* 4. condition factor with its floor *)
ConditionFactor(cfg, attrs) == Max2(attrs.current_condition, cfg.MIN_CONDITION_FACTOR)

AdjustedRul(cfg, attrs, date, overdue) ==
    LET penalty == (DefermentPenalty(cfg, attrs, overdue) * AgingFactor(cfg, attrs, date)) \div 100
    IN ((BaselineRul(attrs, date) - penalty) * ConditionFactor(cfg, attrs)) \div 100

MinRul(cfg, attrs) == cfg.MIN_RUL_RATIO * ExpectedLifespan(attrs)

ApplyRulFloor_NoFloor(cfg, attrs, rul) == rul

(* 5. rul = max(rul, MIN_RUL_RATIO * expected_lifespan) *)
ApplyRulFloor(cfg, attrs, rul) == Max2(rul, MinRul(cfg, attrs))

RulOf(cfg, attrs, date, overdue) ==
    ApplyRulFloor(cfg, attrs, AdjustedRul(cfg, attrs, date, overdue))

(* 6. annual failure probability, per mille *)
FailureProbability(cfg, attrs, date) ==
    Min2(1000, (BASE_FAILURE_RATES[attrs.type] * AgingFactor(cfg, attrs, date))
                   \div Max2(1, ConditionFactor(cfg, attrs)))

RiskLevel_Strict(cfg, rul) ==
    IF rul < cfg.CRITICAL_RUL_THRESHOLD_YEARS * 1200 THEN "CRITICAL"
    ELSE IF rul < cfg.HIGH_RUL_THRESHOLD_YEARS * 1200 THEN "HIGH"
    ELSE IF rul < cfg.MEDIUM_RUL_THRESHOLD_YEARS * 1200 THEN "MEDIUM"
    ELSE "LOW"

(* 7. risk level from the RUL thresholds (years -> hundredths of month) *)
RiskLevel(cfg, rul) ==
    IF rul <= cfg.CRITICAL_RUL_THRESHOLD_YEARS * 1200 THEN "CRITICAL"
    ELSE IF rul <= cfg.HIGH_RUL_THRESHOLD_YEARS * 1200 THEN "HIGH"
    ELSE IF rul <= cfg.MEDIUM_RUL_THRESHOLD_YEARS * 1200 THEN "MEDIUM"
    ELSE "LOW"

(* 8. replacement flag, disabled when the threshold is None *)
FlaggedForReplacement(cfg, rul) ==
    /\ cfg.REPLACEMENT_THRESHOLD_YEARS # NoValue
    /\ rul <= cfg.REPLACEMENT_THRESHOLD_YEARS * 1200

apply_rul_to_node_NoSkip(cfg, tk, attrs, n, date) ==
    LET rul == RulOf(cfg, attrs, date, HasOverdueTask(tk, n, date))
    IN [attrs EXCEPT
           !.rul = rul,
           !.risk_level = RiskLevel(cfg, rul),
           !.failure_probability = FailureProbability(cfg, attrs, date),
           !.flagged_for_replacement = FlaggedForReplacement(cfg, rul)]

(* the RUL model applied to one node; ignored types are skipped entirely *)
apply_rul_to_node(cfg, tk, attrs, n, date) ==
    IF attrs.type \in cfg.TYPES_TO_IGNORE THEN attrs
    ELSE LET rul == RulOf(cfg, attrs, date, HasOverdueTask(tk, n, date))
         IN [attrs EXCEPT
                !.rul = rul,
                !.risk_level = RiskLevel(cfg, rul),
                !.failure_probability = FailureProbability(cfg, attrs, date),
                !.flagged_for_replacement = FlaggedForReplacement(cfg, rul)]

apply_rul_to_graph(cfg, tk, g, date) ==
    [g EXCEPT !.attrs = [n \in g.nodes |-> apply_rul_to_node(cfg, tk, g.attrs[n], n, date)]]

(* the driver writes the risk scorer's result into every node *)
apply_risk_scores_to_graph(g) ==
    [g EXCEPT !.attrs = [n \in g.nodes |-> [g.attrs[n] EXCEPT !.risk_score = risk_score(g, n)]]]

----------------------------------------------------------------------------
(* Task generator *)

(* task id = template id concatenated with the equipment id *)
TaskId(template_id, equipment_id) == template_id \o equipment_id

MaintenanceTask(tpl, n, attrs) ==
    [task_id |-> TaskId(tpl.task_id, n),
     template_id |-> tpl.task_id,
     equipment_id |-> n,
     is_replacement |-> FALSE,
     priority |-> tpl.default_priority,
     time_cost |-> tpl.time_cost,
     money_cost |-> tpl.money_cost,
     recommended_frequency_months |-> tpl.recommended_frequency_months,
     installation_date |-> attrs.installation_date,
     next_due_date |-> attrs.installation_date + tpl.recommended_frequency_months,
     deferred_count |-> 0,
     status |-> "pending",
     condition_improvement_amount |-> 0,
     base_expected_lifespan_improvement_percentage |-> 0]

ReplacementTask(tpl, n, attrs, date) ==
    [task_id |-> TaskId(tpl.task_id, n),
     template_id |-> tpl.task_id,
     equipment_id |-> n,
     is_replacement |-> TRUE,
     priority |-> 0,
     time_cost |-> tpl.time_cost,
     money_cost |-> tpl.money_cost,
     recommended_frequency_months |-> 0,
     installation_date |-> attrs.installation_date,
     next_due_date |-> date,
     deferred_count |-> 0,
     status |-> "scheduled",
     condition_improvement_amount |-> tpl.condition_improvement_amount,
     base_expected_lifespan_improvement_percentage |->
         tpl.base_expected_lifespan_improvement_percentage]

generate_maintenance_tasks_AllPairs(g, templates) ==
    LET pairs == templates \X g.nodes
        ids == {TaskId(p[1].task_id, p[2]) : p \in pairs}
    IN [id \in ids |->
          LET p == CHOOSE q \in pairs : TaskId(q[1].task_id, q[2]) = id
          IN MaintenanceTask(p[1], p[2], g.attrs[p[2]])]

(* one recurring instance per equipment node x applicable maintenance template *)
generate_maintenance_tasks(g, templates) ==
    LET pairs == {p \in templates \X g.nodes : p[1].equipment_type = g.attrs[p[2]].type}
        ids == {TaskId(p[1].task_id, p[2]) : p \in pairs}
    IN [id \in ids |->
          LET p == CHOOSE q \in pairs : TaskId(q[1].task_id, q[2]) = id
          IN MaintenanceTask(p[1], p[2], g.attrs[p[2]])]

----------------------------------------------------------------------------
(* Monthly scheduler *)

PosIn(seq, x) == CHOOSE i \in 1..Len(seq) : seq[i] = x

TemplateIds(templates) == [i \in 1..Len(templates) |-> templates[i].task_id]

(* position of a task in the catalog: node order first, then template order *)
TaskRank(g, mts, rts, t) ==
    PosIn(g.order, t.equipment_id) * (Len(mts) + Len(rts) + 1)
    + (IF t.is_replacement
       THEN Len(mts) + PosIn(TemplateIds(rts), t.template_id)
       ELSE PosIn(TemplateIds(mts), t.template_id))

RECURSIVE SeqByRank(_, _, _, _)
SeqByRank(S, g, mts, rts) ==
    IF S = {} THEN <<>>
    ELSE LET t == CHOOSE x \in S :
                    \A y \in S : TaskRank(g, mts, rts, x) <= TaskRank(g, mts, rts, y)
         IN <<t>> \o SeqByRank(S \ {t}, g, mts, rts)

IsDue_Always(t, date) == ~t.is_replacement

IsDue_Strict(t, date) == ~t.is_replacement /\ t.next_due_date < date

(* due: current date >= next_due_date *)
IsDue(t, date) == ~t.is_replacement /\ t.next_due_date <= date

IsCarried_Never(t) == FALSE

(* deferred in a prior month and not executed since *)
IsCarried(t) == t.status = "deferred"

NewlyTriggered_None(g, rts, tk, date) == {}

NewlyTriggered_IgnoresBacklog(g, rts, tk, date) ==
    {ReplacementTask(rts[i], n, g.attrs[n], date) :
        <<i, n>> \in {p \in (1..Len(rts)) \X g.nodes :
                        /\ rts[p[1]].equipment_type = g.attrs[p[2]].type
                        /\ g.attrs[p[2]].current_condition < rts[p[1]].condition_level}}

(* repair/replacement instances created this month: condition below the
   template's condition_level and no instance of it in the backlog yet *)
NewlyTriggered(g, rts, tk, date) ==
    {ReplacementTask(rts[i], n, g.attrs[n], date) :
        <<i, n>> \in {p \in (1..Len(rts)) \X g.nodes :
                        /\ rts[p[1]].equipment_type = g.attrs[p[2]].type
                        /\ g.attrs[p[2]].current_condition < rts[p[1]].condition_level
                        /\ TaskId(rts[p[1]].task_id, p[2]) \notin DOMAIN tk}}

(* 1. the candidate list: due recurring tasks, carried deferred tasks, new triggers *)
assemble_candidates(g, mts, rts, tk, date) ==
    LET recurring == {tk[id] : id \in {i \in DOMAIN tk :
                          ~tk[i].is_replacement /\ (IsDue(tk[i], date) \/ IsCarried(tk[i]))}}
        backlog == {tk[id] : id \in {i \in DOMAIN tk : tk[i].is_replacement /\ IsCarried(tk[i])}}
    IN SeqByRank(recurring, g, mts, rts)
       \o SeqByRank(backlog, g, mts, rts)
       \o SeqByRank(NewlyTriggered(g, rts, tk, date), g, mts, rts)

SortsBefore_IgnoresRisk(g, a, b) ==
    IF a.is_replacement # b.is_replacement THEN a.is_replacement
    ELSE a.priority # b.priority /\ a.priority < b.priority

(* 2. sort key (is_replacement desc, priority asc, node.risk_score desc) *)
SortsBefore(g, a, b) ==
    IF a.is_replacement # b.is_replacement THEN a.is_replacement
    ELSE IF a.priority # b.priority THEN a.priority < b.priority
    ELSE RatLess(g.attrs[b.equipment_id].risk_score, g.attrs[a.equipment_id].risk_score)

(* stable insertion: x goes before the first element that sorts strictly after it *)
RECURSIVE InsertSorted(_, _, _)
InsertSorted(g, sorted, x) ==
    IF sorted = <<>> THEN <<x>>
    ELSE IF SortsBefore(g, x, Head(sorted)) THEN <<x>> \o sorted
    ELSE <<Head(sorted)>> \o InsertSorted(g, Tail(sorted), x)

RECURSIVE SortCandidates(_, _)
SortCandidates(g, cands) ==
    IF cands = <<>> THEN <<>>
    ELSE InsertSorted(g, SortCandidates(g, SubSeq(cands, 1, Len(cands) - 1)), cands[Len(cands)])

TimeCosts(ts) == [i \in 1..Len(ts) |-> ts[i].time_cost]

MoneyCosts(ts) == [i \in 1..Len(ts) |-> ts[i].money_cost]

Fits_TimeOnly(t, time_used, money_used, time_budget, money_budget) ==
    time_used + t.time_cost <= time_budget

Fits_MoneyOnly(t, time_used, money_used, time_budget, money_budget) ==
    money_used + t.money_cost <= money_budget

Fits_AfterFirst(t, time_used, money_used, time_budget, money_budget) ==
    \/ time_used = 0 /\ money_used = 0
    \/ time_used + t.time_cost <= time_budget /\ money_used + t.money_cost <= money_budget

(* a candidate is admitted while both cumulative costs stay within the budgets *)
Fits(t, time_used, money_used, time_budget, money_budget) ==
    /\ time_used + t.time_cost <= time_budget
    /\ money_used + t.money_cost <= money_budget

(* 3. number of candidates admitted, in sorted order, up to the first breach *)
RECURSIVE AdmitCount(_, _, _, _, _, _)
AdmitCount(sorted, i, time_used, money_used, time_budget, money_budget) ==
    IF i > Len(sorted) THEN i - 1
    ELSE IF Fits(sorted[i], time_used, money_used, time_budget, money_budget)
         THEN AdmitCount(sorted, i + 1, time_used + sorted[i].time_cost,
                         money_used + sorted[i].money_cost, time_budget, money_budget)
         ELSE i - 1

admit_DropsBreaching(sorted, time_budget, money_budget) ==
    LET k == AdmitCount(sorted, 1, 0, 0, time_budget, money_budget)
    IN [executed |-> SubSeq(sorted, 1, k), deferred |-> SubSeq(sorted, k + 2, Len(sorted))]

admit_SkipsBreaching(sorted, time_budget, money_budget) ==
    LET k == AdmitCount(sorted, 1, 0, 0, time_budget, money_budget)
        time_left == time_budget - SeqSum(TimeCosts(SubSeq(sorted, 1, k)))
        money_left == money_budget - SeqSum(MoneyCosts(SubSeq(sorted, 1, k)))
        later == {j \in (k + 2)..Len(sorted) :
                    sorted[j].time_cost <= time_left /\ sorted[j].money_cost <= money_left}
    IN IF later = {}
       THEN [executed |-> SubSeq(sorted, 1, k), deferred |-> SubSeq(sorted, k + 1, Len(sorted))]
       ELSE LET j == CHOOSE a \in later : \A b \in later : a <= b
            IN [executed |-> Append(SubSeq(sorted, 1, k), sorted[j]),
                deferred |-> SubSeq(sorted, k + 1, j - 1) \o SubSeq(sorted, j + 1, Len(sorted))]

(* the scheduled list is split into the executed and the deferred tasks *)
admit(sorted, time_budget, money_budget) ==
    LET k == AdmitCount(sorted, 1, 0, 0, time_budget, money_budget)
    IN [executed |-> SubSeq(sorted, 1, k), deferred |-> SubSeq(sorted, k + 1, Len(sorted))]

ClampCondition_NoClamp(c) == c

(* current_condition stays in 0.0 .. 1.0 *)
ClampCondition(c) == Max2(0, Min2(100, c))

apply_executed_to_node_ResetsInstallation(cfg, attrs, t) ==
    IF t.is_replacement
    THEN [attrs EXCEPT
            !.current_condition = ClampCondition(@ + t.condition_improvement_amount),
            !.installation_date = 0]
    ELSE [attrs EXCEPT
            !.current_condition = ClampCondition(@ + cfg.MAINTENANCE_CONDITION_NUDGE)]

(* 4. effect of one executed task on its node *)
apply_executed_to_node(cfg, attrs, t) ==
    IF t.is_replacement
    THEN [attrs EXCEPT
            !.current_condition = ClampCondition(@ + t.condition_improvement_amount),
            !.expected_lifespan =
                ExpectedLifespan(attrs)
                + (ExpectedLifespan(attrs) * t.base_expected_lifespan_improvement_percentage) \div 100]
    ELSE [attrs EXCEPT
            !.current_condition = ClampCondition(@ + cfg.MAINTENANCE_CONDITION_NUDGE)]

apply_executed_DropsEdges(cfg, g, executed) ==
    [g EXCEPT !.edges = {e \in @ : \A i \in 1..Len(executed) :
                            executed[i].is_replacement =>
                                executed[i].equipment_id \notin {e[1], e[2]}}]

RECURSIVE apply_executed(_, _, _)
apply_executed(cfg, g, executed) ==
    IF executed = <<>> THEN g
    ELSE LET t == Head(executed)
             g1 == [g EXCEPT !.attrs[t.equipment_id] =
                        apply_executed_to_node(cfg, g.attrs[t.equipment_id], t)]
         IN apply_executed(cfg, g1, Tail(executed))

apply_deferred_None(g, deferred) == g

(* 5. every deferred task increments its node's deferred_task_count *)
RECURSIVE apply_deferred(_, _)
apply_deferred(g, deferred) ==
    IF deferred = <<>> THEN g
    ELSE LET t == Head(deferred)
             g1 == [g EXCEPT !.attrs[t.equipment_id].deferred_task_count = @ + 1]
         IN apply_deferred(g1, Tail(deferred))

NextDueAfterExecution_Unchanged(t, date) == t.next_due_date

NextDueAfterExecution_FromDueDate(t, date) ==
    t.next_due_date + t.recommended_frequency_months

(* next_due_date advances by recommended_frequency_months from the execution date *)
NextDueAfterExecution(t, date) == date + t.recommended_frequency_months

task_after_execution(t, date) ==
    [t EXCEPT !.next_due_date = NextDueAfterExecution(t, date),
              !.deferred_count = 0,
              !.status = "executed"]

task_after_deferral_Reschedules(t) ==
    [t EXCEPT !.deferred_count = @ + 1,
              !.status = "deferred",
              !.next_due_date = @ + t.recommended_frequency_months]

task_after_deferral(t) ==
    [t EXCEPT !.deferred_count = @ + 1, !.status = "deferred"]

TaskIdsOf(ts) == {ts[i].task_id : i \in 1..Len(ts)}

TaskWithId(ts, id) == ts[CHOOSE i \in 1..Len(ts) : ts[i].task_id = id]

update_tasks_KeepsExecuted(tk, executed, deferred, date) ==
    LET ids == DOMAIN tk \cup TaskIdsOf(deferred) \cup TaskIdsOf(executed)
    IN [id \in ids |->
          IF id \in TaskIdsOf(executed) THEN task_after_execution(TaskWithId(executed, id), date)
          ELSE IF id \in TaskIdsOf(deferred) THEN task_after_deferral(TaskWithId(deferred, id))
          ELSE [tk[id] EXCEPT !.status = "pending"]]

(* the task table after the month: executed recurring tasks re-armed, executed
   replacements retired, deferred tasks kept in the backlog *)
update_tasks(tk, executed, deferred, date) ==
    LET retired == {executed[i].task_id : i \in {j \in 1..Len(executed) : executed[j].is_replacement}}
        ids == (DOMAIN tk \cup TaskIdsOf(deferred)) \ retired
    IN [id \in ids |->
          IF id \in TaskIdsOf(executed) THEN task_after_execution(TaskWithId(executed, id), date)
          ELSE IF id \in TaskIdsOf(deferred) THEN task_after_deferral(TaskWithId(deferred, id))
          ELSE [tk[id] EXCEPT !.status = "pending"]]

(* a task whose cost alone exceeds the whole monthly allocation *)
ExceedsAllocation(cfg, t) ==
    t.time_cost > cfg.time_budget \/ t.money_cost > cfg.money_budget

scheduling_warnings_TimeOnly(cfg, cands) ==
    {cands[i].task_id : i \in {j \in 1..Len(cands) : cands[j].time_cost > cfg.time_budget}}

(* SchedulingWarning: collected for the month's record, never fatal *)
scheduling_warnings(cfg, cands) ==
    {cands[i].task_id : i \in {j \in 1..Len(cands) : ExceedsAllocation(cfg, cands[j])}}

----------------------------------------------------------------------------
(* Condition/log simulator *)

(* quantiles of Beta(alpha=5, beta=1), hundredths, indexed by the generator state *)
BetaQuantiles == <<57, 72, 79, 85, 89, 93, 96, 99>>

RandomModulus == Len(BetaQuantiles)

seed_random_KeepState(cfg, state) == state

(* random.seed(seed): the generator restarts from the configured seed *)
seed_random(cfg, state) == cfg.seed % RandomModulus

next_random(state) == (5 * state + 3) % RandomModulus

betavariate(state) == BetaQuantiles[state + 1]

(* round(x, 1) of a value given in ten-thousandths; result in hundredths *)
Round1(p) ==
    LET q == p \div 1000
        r == p % 1000
    IN 10 * (IF r > 500 THEN q + 1
             ELSE IF r < 500 THEN q
             ELSE IF q % 2 = 0 THEN q ELSE q + 1)

(* new_condition = round(random.betavariate(alpha=5, beta=1) * current_condition, 1) *)
new_condition(state, current_condition) == Round1(betavariate(state) * current_condition)

(* one synthetic log per executed task, drawn in execution order *)
RECURSIVE generate_logs(_, _, _, _)
generate_logs(g, executed, state, date) ==
    IF executed = <<>> THEN [logs |-> <<>>, state |-> state]
    ELSE LET t == Head(executed)
             entry == [date |-> date,
                       equipment_id |-> t.equipment_id,
                       condition |-> new_condition(state, g.attrs[t.equipment_id].current_condition)]
             rest == generate_logs(g, Tail(executed), next_random(state), date)
         IN [logs |-> <<entry>> \o rest.logs, state |-> rest.state]

----------------------------------------------------------------------------
(* Simulation driver *)

EmptyMonth ==
    [month |-> NoValue,
     tasks_scheduled |-> <<>>,
     executed_tasks |-> <<>>,
     deferred_tasks |-> <<>>,
     rollover_time_budget |-> 0,
     rollover_money_budget |-> 0,
     time_budget |-> 0,
     money_budget |-> 0,
     maintenance_logs |-> <<>>,
     replacement_tasks_executed |-> <<>>,
     replacement_tasks_not_executed |-> <<>>,
     warnings |-> {},
     graph |-> NoValue]

OnlyReplacements(ts) == LET IsRepl(t) == t.is_replacement IN SelectSeq(ts, IsRepl)

ValidConfiguration_Always(cfg) == TRUE

(* range checks of the settings object: MIN_RUL_RATIO is a ratio in [0, 1] *)
ValidConfiguration(cfg) == 0 <= cfg.MIN_RUL_RATIO /\ cfg.MIN_RUL_RATIO <= 100

(* ConfigurationError: fatal, raised before the first month *)
RejectConfiguration ==
    /\ pc = "start"
    /\ ~ValidConfiguration(config)
    /\ pc' = "config_error"
    /\ UNCHANGED <<input_graph, graph, config, maintenance_templates, repair_templates,
                   tasks, month, rollover_time_budget, rollover_money_budget, current,
                   monthly_records, random_state, run, first_run_records, peer>>

(* the run starts on its own copy of the supplied graph; the task generator
   runs once; the random generator is seeded *)
StartRun ==
    /\ pc = "start"
    /\ ValidConfiguration(config)
    /\ graph' = input_graph
    /\ tasks' = generate_maintenance_tasks(input_graph, SeqToSet(maintenance_templates))
    /\ random_state' = seed_random(config, random_state)
    /\ month' = 0
    /\ rollover_time_budget' = 0
    /\ rollover_money_budget' = 0
    /\ current' = EmptyMonth
    /\ monthly_records' = <<>>
    /\ pc' = "rul"
    /\ UNCHANGED <<input_graph, config, maintenance_templates, repair_templates,
                   run, first_run_records, peer>>

(* RUL model over all nodes for the current date *)
UpdateRUL ==
    /\ pc = "rul"
    /\ graph' = apply_rul_to_graph(config, tasks, graph, month)
    /\ pc' = "risk"
    /\ UNCHANGED <<input_graph, config, maintenance_templates, repair_templates, tasks,
                   month, rollover_time_budget, rollover_money_budget, current,
                   monthly_records, random_state, run, first_run_records, peer>>

(* risk scorer recomputed and written by the driver *)
UpdateRisk ==
    /\ pc = "risk"
    /\ graph' = apply_risk_scores_to_graph(graph)
    /\ pc' = "schedule"
    /\ UNCHANGED <<input_graph, config, maintenance_templates, repair_templates, tasks,
                   month, rollover_time_budget, rollover_money_budget, current,
                   monthly_records, random_state, run, first_run_records, peer>>

AvailableTime_Allocation(cfg, rollover) == cfg.time_budget

(* the month's available budgets: configured allocation plus rollover *)
AvailableTime(cfg, rollover) == cfg.time_budget + rollover

AvailableMoney(cfg, rollover) == cfg.money_budget + rollover

(* one invocation of the monthly scheduler *)
ScheduleMonth ==
    /\ pc = "schedule"
    /\ LET cands == assemble_candidates(graph, maintenance_templates, repair_templates,
                                        tasks, month)
           sorted == SortCandidates(graph, cands)
           tb == AvailableTime(config, rollover_time_budget)
           mb == AvailableMoney(config, rollover_money_budget)
           res == admit(sorted, tb, mb)
       IN /\ graph' = apply_deferred(apply_executed(config, graph, res.executed), res.deferred)
          /\ tasks' = update_tasks(tasks, res.executed, res.deferred, month)
          /\ current' = [EmptyMonth EXCEPT
                            !.month = month,
                            !.tasks_scheduled = sorted,
                            !.executed_tasks = res.executed,
                            !.deferred_tasks = res.deferred,
                            !.rollover_time_budget = rollover_time_budget,
                            !.rollover_money_budget = rollover_money_budget,
                            !.time_budget = tb,
                            !.money_budget = mb,
                            !.replacement_tasks_executed = OnlyReplacements(res.executed),
                            !.replacement_tasks_not_executed = OnlyReplacements(res.deferred),
                            !.warnings = scheduling_warnings(config, sorted)]
    /\ pc' = "logs"
    /\ UNCHANGED <<input_graph, config, maintenance_templates, repair_templates, month,
                   rollover_time_budget, rollover_money_budget, monthly_records,
                   random_state, run, first_run_records, peer>>

SimulateLogs_WritesBack ==
    /\ pc = "logs"
    /\ LET res == generate_logs(graph, current.executed_tasks, random_state, month)
       IN /\ current' = [current EXCEPT !.maintenance_logs = res.logs]
          /\ random_state' = res.state
          /\ graph' = [graph EXCEPT !.attrs =
                [n \in graph.nodes |->
                    IF \E k \in 1..Len(res.logs) : res.logs[k].equipment_id = n
                    THEN [graph.attrs[n] EXCEPT !.current_condition =
                             res.logs[CHOOSE k \in 1..Len(res.logs) :
                                          res.logs[k].equipment_id = n].condition]
                    ELSE graph.attrs[n]]]
    /\ pc' = "snapshot"
    /\ UNCHANGED <<input_graph, config, maintenance_templates, repair_templates,
                   tasks, month, rollover_time_budget, rollover_money_budget,
                   monthly_records, run, first_run_records, peer>>

(* synthetic maintenance logs, appended to the month's record only *)
SimulateLogs ==
    /\ pc = "logs"
    /\ LET res == generate_logs(graph, current.executed_tasks, random_state, month)
       IN /\ current' = [current EXCEPT !.maintenance_logs = res.logs]
          /\ random_state' = res.state
    /\ pc' = "snapshot"
    /\ UNCHANGED <<input_graph, graph, config, maintenance_templates, repair_templates,
                   tasks, month, rollover_time_budget, rollover_money_budget,
                   monthly_records, run, first_run_records, peer>>

carry_over_Always(cfg, budget, spent) == budget - spent

carry_over_IgnoresSpending(cfg, budget, spent) == IF cfg.enable_budget_rollover THEN budget ELSE 0

(* 6. unused budget is carried over only when rollover is enabled *)
carry_over(cfg, budget, spent) == IF cfg.enable_budget_rollover THEN budget - spent ELSE 0

SnapshotMonth_SkipsMonth ==
    /\ pc = "snapshot"
    /\ monthly_records' = Append(monthly_records, [current EXCEPT !.graph = graph])
    /\ rollover_time_budget' =
           carry_over(config, current.time_budget, SeqSum(TimeCosts(current.executed_tasks)))
    /\ rollover_money_budget' =
           carry_over(config, current.money_budget, SeqSum(MoneyCosts(current.executed_tasks)))
    /\ month' = month + 2
    /\ pc' = IF month + 2 >= NumMonths THEN "done" ELSE "rul"
    /\ UNCHANGED <<input_graph, graph, config, maintenance_templates, repair_templates,
                   tasks, current, random_state, run, first_run_records, peer>>

(* the driver snapshots the month and carries the state into the next month *)
SnapshotMonth ==
    /\ pc = "snapshot"
    /\ monthly_records' = Append(monthly_records, [current EXCEPT !.graph = graph])
    /\ rollover_time_budget' =
           carry_over(config, current.time_budget, SeqSum(TimeCosts(current.executed_tasks)))
    /\ rollover_money_budget' =
           carry_over(config, current.money_budget, SeqSum(MoneyCosts(current.executed_tasks)))
    /\ month' = month + 1
    /\ pc' = IF month + 1 >= NumMonths THEN "done" ELSE "rul"
    /\ UNCHANGED <<input_graph, graph, config, maintenance_templates, repair_templates,
                   tasks, current, random_state, run, first_run_records, peer>>

(* the same simulation run again over the same input, seed and configuration *)
RunAgain ==
    /\ pc = "done"
    /\ run = 1
    /\ first_run_records' = monthly_records
    /\ run' = 2
    /\ pc' = "start"
    /\ UNCHANGED <<input_graph, graph, config, maintenance_templates, repair_templates,
                   tasks, month, rollover_time_budget, rollover_money_budget, current,
                   monthly_records, random_state, peer>>

(* no second run *)
NoPeer == [pc |-> "none"]

(* the state of a run that has not started *)
NewRun(cfg) ==
    [pc |-> "start",
     config |-> cfg,
     graph |-> NoValue,
     tasks |-> <<>>,
     month |-> 0,
     rollover_time_budget |-> 0,
     rollover_money_budget |-> 0,
     monthly_records |-> <<>>]

(* the start of a run: its own deep copy of the supplied graph, the task
   catalog, and random.seed(seed) on the module-level generator *)
run_start(st, state, g, mts) ==
    [run |-> [st EXCEPT !.pc = "rul",
                        !.graph = g,
                        !.tasks = generate_maintenance_tasks(g, SeqToSet(mts)),
                        !.month = 0,
                        !.rollover_time_budget = 0,
                        !.rollover_money_budget = 0,
                        !.monthly_records = <<>>],
     random_state |-> seed_random(st.config, state)]

(* one month of a run: RUL model, risk scorer, scheduler, log simulator and
   snapshot, drawing from the module-level generator *)
run_month(st, state, mts, rts) ==
    LET g1 == apply_risk_scores_to_graph(
                  apply_rul_to_graph(st.config, st.tasks, st.graph, st.month))
        sorted == SortCandidates(g1, assemble_candidates(g1, mts, rts, st.tasks, st.month))
        tb == AvailableTime(st.config, st.rollover_time_budget)
        mb == AvailableMoney(st.config, st.rollover_money_budget)
        res == admit(sorted, tb, mb)
        g2 == apply_deferred(apply_executed(st.config, g1, res.executed), res.deferred)
        drawn == generate_logs(g2, res.executed, state, st.month)
        record == [EmptyMonth EXCEPT
                      !.month = st.month,
                      !.tasks_scheduled = sorted,
                      !.executed_tasks = res.executed,
                      !.deferred_tasks = res.deferred,
                      !.rollover_time_budget = st.rollover_time_budget,
                      !.rollover_money_budget = st.rollover_money_budget,
                      !.time_budget = tb,
                      !.money_budget = mb,
                      !.replacement_tasks_executed = OnlyReplacements(res.executed),
                      !.replacement_tasks_not_executed = OnlyReplacements(res.deferred),
                      !.warnings = scheduling_warnings(st.config, sorted),
                      !.maintenance_logs = drawn.logs,
                      !.graph = g2]
    IN [run |-> [st EXCEPT
                    !.graph = g2,
                    !.tasks = update_tasks(st.tasks, res.executed, res.deferred, st.month),
                    !.monthly_records = Append(st.monthly_records, record),
                    !.rollover_time_budget =
                        carry_over(st.config, tb, SeqSum(TimeCosts(res.executed))),
                    !.rollover_money_budget =
                        carry_over(st.config, mb, SeqSum(MoneyCosts(res.executed))),
                    !.month = st.month + 1,
                    !.pc = IF st.month + 1 >= NumMonths THEN "done" ELSE "rul"],
        random_state |-> drawn.state]

RECURSIVE run_months(_, _, _, _)
run_months(st, state, mts, rts) ==
    IF st.pc = "done" THEN st.monthly_records
    ELSE LET r == run_month(st, state, mts, rts)
         IN run_months(r.run, r.random_state, mts, rts)

(* the monthly records of a run that has the process to itself *)
run_alone(cfg, g, mts, rts) ==
    LET r == run_start(NewRun(cfg), 0, g, mts)
    IN run_months(r.run, r.random_state, mts, rts)

(* the second run starts, between two months of the first *)
PeerStart ==
    /\ pc \in {"start", "rul", "done"}
    /\ peer.pc = "start"
    /\ LET r == run_start(peer, random_state, input_graph, maintenance_templates)
       IN /\ peer' = r.run
          /\ random_state' = r.random_state
    /\ UNCHANGED <<input_graph, graph, config, maintenance_templates, repair_templates,
                   tasks, month, pc, rollover_time_budget, rollover_money_budget,
                   current, monthly_records, run, first_run_records>>

(* the second run simulates its next month, between two months of the first *)
PeerMonth ==
    /\ pc \in {"start", "rul", "done"}
    /\ peer.pc = "rul"
    /\ LET r == run_month(peer, random_state, maintenance_templates, repair_templates)
       IN /\ peer' = r.run
          /\ random_state' = r.random_state
    /\ UNCHANGED <<input_graph, graph, config, maintenance_templates, repair_templates,
                   tasks, month, pc, rollover_time_budget, rollover_money_budget,
                   current, monthly_records, run, first_run_records>>

----------------------------------------------------------------------------
(* Inputs: equipment graphs, templates and settings *)

T1 == <<"T", "1">>
P1 == <<"P", "1">>
P2 == <<"P", "2">>
L1 == <<"L", "1">>
L2 == <<"L", "2">>

Node(type, installation_date, expected_lifespan, current_condition, power) ==
    [type |-> type,
     installation_date |-> installation_date,
     expected_lifespan |-> expected_lifespan,
     replacement_cost |-> 0,
     current_condition |-> current_condition,
     propagated_power |-> power,
     risk_score |-> Rat(0, 1),
     risk_level |-> "",
     rul |-> NoValue,
     failure_probability |-> NoValue,
     deferred_task_count |-> 0,
     flagged_for_replacement |-> FALSE]

(* a single panelboard installed 2000-01, simulated from 2024-01 (month 0) *)
SinglePanelboard(cond) ==
    [nodes |-> {P1},
     order |-> <<P1>>,
     edges |-> {},
     attrs |-> [n \in {P1} |-> Node("panelboard", 0 - 288, NoValue, cond, NoValue)]]

(* transformer -> panelboard -> panelboard -> end load; the graph lists its
   nodes from the end load upwards *)
Riser(cond) ==
    [nodes |-> {T1, P1, P2, L1},
     order |-> <<L1, P2, P1, T1>>,
     edges |-> {<<T1, P1>>, <<P1, P2>>, <<P2, L1>>},
     attrs |-> [n \in {T1, P1, P2, L1} |->
                  CASE n = T1 -> Node("transformer", 0 - 100, NoValue, 90, 10)
                    [] n = P1 -> Node("panelboard", 0 - 30, 20 * 12, cond, 10)
                    [] n = P2 -> Node("panelboard", 0 - 2, NoValue, 100, 10)
                    [] n = L1 -> Node("end_load", 0 - 2, NoValue, 100, 10)]]

InitialConditions == {20, 100}

InputGraphs ==
    {SinglePanelboard(c) : c \in InitialConditions} \cup {Riser(c) : c \in InitialConditions}

MaintenanceTemplate(id, type, freq, priority, time_cost, money_cost) ==
    [task_id |-> id,
     equipment_type |-> type,
     recommended_frequency_months |-> freq,
     default_priority |-> priority,
     time_cost |-> time_cost,
     money_cost |-> money_cost]

RepairTemplate(id, type, time_cost, money_cost, level, amount, pct) ==
    [task_id |-> id,
     equipment_type |-> type,
     time_cost |-> time_cost,
     money_cost |-> money_cost,
     condition_level |-> level,
     condition_improvement_amount |-> amount,
     base_expected_lifespan_improvement_percentage |-> pct]

MaintenanceTemplateSets ==
    {<<MaintenanceTemplate(<<"M", "1">>, "panelboard", f, pt[1], pt[2], 1),
       MaintenanceTemplate(<<"M", "2">>, "panelboard", 2, 1, 2, 2),
       MaintenanceTemplate(<<"M", "3">>, "transformer", 3, 2, 1, 1),
       MaintenanceTemplate(<<"M", "4">>, "switchboard", 1, 1, 1, 1)>> :
        <<f, pt>> \in {1, 3} \X {<<1, 1>>, <<2, 1>>, <<2, 3>>}}

RepairTemplateSets ==
    {<<RepairTemplate(<<"R", "1">>, "panelboard", 2, m, 30, a, pct)>> :
        <<m, a, pct>> \in {<<2, 5, 0>>, <<2, 10, 0>>, <<5, 10, 0>>, <<2, 100, 10>>, <<5, 100, 10>>}}

RulSettings ==
    {[TASK_DEFERMENT_FACTOR |-> 50, OVERDUE_IMPACT_MULTIPLIER |-> 150,
      AGING_ACCELERATION_FACTOR |-> 2, MAX_AGING_MULTIPLIER |-> 200,
      MIN_CONDITION_FACTOR |-> 10, MIN_RUL_RATIO |-> 10,
      CRITICAL_RUL_THRESHOLD_YEARS |-> 1, HIGH_RUL_THRESHOLD_YEARS |-> 3,
      MEDIUM_RUL_THRESHOLD_YEARS |-> 5, REPLACEMENT_THRESHOLD_YEARS |-> 1,
      MAINTENANCE_CONDITION_NUDGE |-> 5, TYPES_TO_IGNORE |-> {"end_load"}],
     [TASK_DEFERMENT_FACTOR |-> 400, OVERDUE_IMPACT_MULTIPLIER |-> 200,
      AGING_ACCELERATION_FACTOR |-> 10, MAX_AGING_MULTIPLIER |-> 150,
      MIN_CONDITION_FACTOR |-> 10, MIN_RUL_RATIO |-> 5,
      CRITICAL_RUL_THRESHOLD_YEARS |-> 2, HIGH_RUL_THRESHOLD_YEARS |-> 5,
      MEDIUM_RUL_THRESHOLD_YEARS |-> 10, REPLACEMENT_THRESHOLD_YEARS |-> NoValue,
      MAINTENANCE_CONDITION_NUDGE |-> 5, TYPES_TO_IGNORE |-> {"end_load"}]}

(* monthly allocations <<time_budget, money_budget>> *)
Budgets == {<<0, 0>>, <<1, 3>>, <<2, 3>>, <<5, 3>>, <<2, 6>>, <<5, 6>>}

Seeds == {1}

Settings(rul, tb, mb, rollover, seed) ==
    [f \in DOMAIN rul \cup {"time_budget", "money_budget", "enable_budget_rollover", "seed"} |->
        CASE f = "time_budget" -> tb
          [] f = "money_budget" -> mb
          [] f = "enable_budget_rollover" -> rollover
          [] f = "seed" -> seed
          [] OTHER -> rul[f]]

(* the state before a run: inputs chosen, nothing simulated *)
InitRun(graphs, mtsets, rtsets, settings) ==
    /\ input_graph \in graphs
    /\ graph = input_graph
    /\ maintenance_templates \in mtsets
    /\ repair_templates \in rtsets
    /\ config \in settings
    /\ tasks = <<>>
    /\ month = 0
    /\ pc = "start"
    /\ rollover_time_budget = 0
    /\ rollover_money_budget = 0
    /\ current = EmptyMonth
    /\ monthly_records = <<>>
    /\ random_state = 0
    /\ run = 1
    /\ first_run_records = <<>>

(* a single run: no second run in the process *)
InitWith(graphs, mtsets, rtsets, settings) ==
    InitRun(graphs, mtsets, rtsets, settings) /\ peer = NoPeer

AllSettings ==
    {Settings(rul, b[1], b[2], ro, seed) :
        <<rul, b, ro, seed>> \in RulSettings \X Budgets \X BOOLEAN \X Seeds}

Init == InitWith(InputGraphs, MaintenanceTemplateSets, RepairTemplateSets, AllSettings)

Next ==
    \/ StartRun
    \/ UpdateRUL
    \/ UpdateRisk
    \/ ScheduleMonth
    \/ SimulateLogs
    \/ SnapshotMonth

Spec == Init /\ [][Next]_vars

----------------------------------------------------------------------------
(* Properties of the monthly records *)

(* the finished months, plus the month being built once it has been scheduled *)
Records ==
    IF pc \in {"logs", "snapshot"}
    THEN Append(monthly_records, [current EXCEPT !.graph = graph])
    ELSE monthly_records

RecordIndices == 1..Len(Records)

TimeSpent(r) == SeqSum(TimeCosts(r.executed_tasks))

MoneySpent(r) == SeqSum(MoneyCosts(r.executed_tasks))

(* C1: in every month the executed tasks cost at most the month's available
   time budget and at most its available money budget (allocation plus rollover) *)
C1_ExecutedWithinBudgets ==
    \A i \in RecordIndices :
        /\ TimeSpent(Records[i]) <= Records[i].time_budget
        /\ MoneySpent(Records[i]) <= Records[i].money_budget
        /\ Records[i].time_budget = config.time_budget + Records[i].rollover_time_budget
        /\ Records[i].money_budget = config.money_budget + Records[i].rollover_money_budget

(* a month that spends rolled-over budget: more than the bare allocation, on
   several tasks, with something still deferred *)
C1_Witness ==
    \E i \in RecordIndices :
        /\ Records[i].rollover_time_budget > 0
        /\ TimeSpent(Records[i]) > config.time_budget
        /\ Len(Records[i].executed_tasks) >= 2
        /\ Len(Records[i].deferred_tasks) >= 1

(* C2: by month's end every scheduled task is exactly one of executed or
   deferred, and nothing is executed or deferred that was not scheduled *)
C2_ExecutedDeferredPartition ==
    \A i \in RecordIndices :
        LET r == Records[i] IN
        /\ TaskIdsOf(r.executed_tasks) \cap TaskIdsOf(r.deferred_tasks) = {}
        /\ TaskIdsOf(r.executed_tasks) \cup TaskIdsOf(r.deferred_tasks) = TaskIdsOf(r.tasks_scheduled)
        /\ Len(r.executed_tasks) + Len(r.deferred_tasks) = Len(r.tasks_scheduled)

C2_Witness ==
    \E i \in RecordIndices :
        /\ Len(Records[i].executed_tasks) >= 1
        /\ Len(Records[i].deferred_tasks) >= 2

ExecutedIn(r, id) == id \in TaskIdsOf(r.executed_tasks)

DeferredIn(r, id) == id \in TaskIdsOf(r.deferred_tasks)

ScheduledIn(r, id) == id \in TaskIdsOf(r.tasks_scheduled)

(* the due date a task carried when it was scheduled in month record r *)
DueDateIn(r, id) == TaskWithId(r.tasks_scheduled, id).next_due_date

(* C3: a task instance is executed at most once within a month, and between two
   executions of the same instance its next_due_date has advanced *)
C3_NeverExecutedTwiceForSameDue ==
    /\ \A i \in RecordIndices :
          NoDuplicates([k \in 1..Len(Records[i].executed_tasks) |->
                            Records[i].executed_tasks[k].task_id])
    /\ \A i, j \in RecordIndices :
          i < j =>
            \A id \in TaskIdsOf(Records[i].executed_tasks) \cap TaskIdsOf(Records[j].executed_tasks) :
                DueDateIn(Records[j], id) > DueDateIn(Records[i], id)

(* a recurring task executed in two different months *)
C3_Witness ==
    \E i, j \in RecordIndices :
        /\ i < j
        /\ \E id \in TaskIdsOf(Records[i].executed_tasks) \cap TaskIdsOf(Records[j].executed_tasks) :
              ~TaskWithId(Records[i].executed_tasks, id).is_replacement

ConditionInRange(g) ==
    \A n \in g.nodes : 0 <= g.attrs[n].current_condition /\ g.attrs[n].current_condition <= 100

(* C4: after any monthly update, including executed maintenance nudges and
   repair/replacement improvements, 0 <= current_condition <= 1 for every node *)
C4_ConditionInUnitInterval ==
    /\ ConditionInRange(graph)
    /\ \A i \in RecordIndices : ConditionInRange(Records[i].graph)

(* a repair whose improvement would lift the node above 1.0, and a routine
   nudge on a node already at 1.0, have both executed *)
C4_Witness ==
    /\ \E i \in RecordIndices : \E k \in 1..Len(Records[i].executed_tasks) :
          LET t == Records[i].executed_tasks[k] IN
          /\ t.is_replacement
          /\ input_graph.attrs[t.equipment_id].current_condition + t.condition_improvement_amount > 100
          /\ Records[i].graph.attrs[t.equipment_id].current_condition = 100
    /\ \E i \in RecordIndices : \E k \in 1..Len(Records[i].executed_tasks) :
          LET t == Records[i].executed_tasks[k] IN
          /\ ~t.is_replacement
          /\ input_graph.attrs[t.equipment_id].current_condition = 100

NonIgnored(g) == {n \in g.nodes : g.attrs[n].type \notin config.TYPES_TO_IGNORE}

RulAboveFloor(g) ==
    \A n \in NonIgnored(g) : g.attrs[n].rul >= config.MIN_RUL_RATIO * ExpectedLifespan(g.attrs[n])

(* C5: after any monthly update, every non-ignored node has
   rul_years >= MIN_RUL_RATIO x expected_lifespan *)
C5_RulNeverBelowFloor ==
    /\ pc = "risk" => RulAboveFloor(graph)
    /\ \A i \in RecordIndices : RulAboveFloor(Records[i].graph)

(* the largest budget a month can have: the allocation plus, with rollover, the
   unspent allocations of all earlier months *)
MaxPossibleTimeBudget ==
    IF config.enable_budget_rollover THEN config.time_budget * NumMonths ELSE config.time_budget

MaxPossibleMoneyBudget ==
    IF config.enable_budget_rollover THEN config.money_budget * NumMonths ELSE config.money_budget

Catalog == generate_maintenance_tasks(input_graph, SeqToSet(maintenance_templates))

OversizeInTime(t) == t.time_cost > MaxPossibleTimeBudget

(* C6 as stated: a task whose time_cost exceeds the maximum possible monthly
   time budget is in deferred_tasks in every month and never in executed_tasks *)
C6_OversizeDeferredEveryMonth ==
    \A id \in DOMAIN Catalog :
        OversizeInTime(Catalog[id]) =>
            \A i \in RecordIndices : DeferredIn(Records[i], id) /\ ~ExecutedIn(Records[i], id)

(* C6 amended: such a task is never executed, and it is in deferred_tasks in
   every month in which it is a candidate, which for a recurring task is every
   month from its first due date on *)
C6_OversizeDeferredWheneverCandidate ==
    /\ \A id \in DOMAIN Catalog :
          OversizeInTime(Catalog[id]) =>
            \A i \in RecordIndices :
                /\ ~ExecutedIn(Records[i], id)
                /\ Records[i].month >= Catalog[id].next_due_date => DeferredIn(Records[i], id)
                /\ Records[i].month < Catalog[id].next_due_date => ~ScheduledIn(Records[i], id)
    /\ \A i \in RecordIndices : \A k \in 1..Len(Records[i].tasks_scheduled) :
          LET t == Records[i].tasks_scheduled[k] IN
          OversizeInTime(t) => DeferredIn(Records[i], t.task_id) /\ ~ExecutedIn(Records[i], t.task_id)

(* an oversize recurring task under a positive allocation: not yet due in the
   first month, deferred in two later months *)
C6_Witness ==
    /\ config.time_budget > 0
    /\ \E id \in DOMAIN Catalog :
          /\ OversizeInTime(Catalog[id])
          /\ \E i, j, k \in RecordIndices :
                /\ i < j /\ j < k
                /\ ~ScheduledIn(Records[i], id)
                /\ DeferredIn(Records[j], id)
                /\ DeferredIn(Records[k], id)

(* C7 as stated: a task whose time_cost or money_cost alone exceeds the
   configured monthly allocation never executes, rollover enabled or not *)
C7_OverAllocationNeverExecutes ==
    \A i \in RecordIndices : \A k \in 1..Len(Records[i].executed_tasks) :
        ~ExceedsAllocation(config, Records[i].executed_tasks[k])

(* C7 amended: such a task never executes in a month that starts without
   rollover, hence never when budget rollover is disabled *)
C7_OverAllocationNeedsRollover ==
    \A i \in RecordIndices :
        LET r == Records[i] IN
        /\ ~config.enable_budget_rollover =>
              r.rollover_time_budget = 0 /\ r.rollover_money_budget = 0
        /\ r.rollover_time_budget = 0 =>
              \A k \in 1..Len(r.executed_tasks) : r.executed_tasks[k].time_cost <= config.time_budget
        /\ r.rollover_money_budget = 0 =>
              \A k \in 1..Len(r.executed_tasks) : r.executed_tasks[k].money_cost <= config.money_budget

(* rollover disabled, budget left unspent in an earlier month, and a task
   costing more than the allocation deferred while another task executes *)
C7_Witness ==
    /\ ~config.enable_budget_rollover
    /\ \E i, j \in RecordIndices :
          /\ i < j
          /\ TimeSpent(Records[i]) < Records[i].time_budget
          /\ MoneySpent(Records[i]) < Records[i].money_budget
          /\ Len(Records[j].executed_tasks) >= 1
          /\ \E k \in 1..Len(Records[j].deferred_tasks) :
                ExceedsAllocation(config, Records[j].deferred_tasks[k])

PermanentlyUnschedulable(t) ==
    t.time_cost > MaxPossibleTimeBudget \/ t.money_cost > MaxPossibleMoneyBudget

(* C8: in every month in which a permanently unschedulable task is a candidate
   the record carries a warning for it and lists it as deferred; the warning is
   not fatal: the run ends only after the last month's record *)
C8_UnschedulableTaskReported ==
    /\ \A i \in RecordIndices : \A k \in 1..Len(Records[i].tasks_scheduled) :
          LET t == Records[i].tasks_scheduled[k] IN
          PermanentlyUnschedulable(t) =>
              t.task_id \in Records[i].warnings /\ DeferredIn(Records[i], t.task_id)
    /\ pc = "done" => Len(monthly_records) = NumMonths
    /\ pc \in {"start", "rul", "risk", "schedule", "logs", "snapshot", "done"}

(* a task unschedulable for its money cost alone is warned about in one month
   and the simulation has gone on to a later month *)
C8_Witness ==
    /\ config.money_budget > 0
    /\ \E i, j \in RecordIndices :
          /\ i < j
          /\ \E k \in 1..Len(Records[i].tasks_scheduled) :
                LET t == Records[i].tasks_scheduled[k] IN
                /\ t.money_cost > MaxPossibleMoneyBudget
                /\ t.time_cost <= config.time_budget
                /\ t.task_id \in Records[i].warnings
                /\ t.task_id \in Records[j].warnings

----------------------------------------------------------------------------
(* The same simulation run twice *)

DetSeeds == {1, 2}

DetSettings ==
    {Settings(rul, b[1], b[2], ro, seed) :
        <<rul, b, ro, seed>> \in
            {r \in RulSettings : r.REPLACEMENT_THRESHOLD_YEARS # NoValue}
            \X Budgets \X BOOLEAN \X DetSeeds}

InitDet ==
    InitWith(InputGraphs,
             {m \in MaintenanceTemplateSets : m[1].time_cost = 1},
             {r \in RepairTemplateSets : r[1].money_cost = 2},
             DetSettings)

NextDet ==
    \/ StartRun
    \/ UpdateRUL
    \/ UpdateRisk
    \/ ScheduleMonth
    \/ SimulateLogs
    \/ SnapshotMonth
    \/ RunAgain

SpecDet == InitDet /\ [][NextDet]_vars

(* C9: a second run with the same seed, configuration and input graph produces
   the same monthly records as the first, month by month *)
C9_SecondRunIdentical ==
    run = 2 =>
        /\ Len(monthly_records) <= Len(first_run_records)
        /\ \A i \in 1..Len(monthly_records) : monthly_records[i] = first_run_records[i]
        /\ pc = "done" => monthly_records = first_run_records

(* both runs finished, with synthetic logs drawn in several months and tasks
   both executed and deferred *)
C9_Witness ==
    /\ run = 2
    /\ pc = "done"
    /\ \E i, j \in 1..Len(monthly_records) :
          /\ i < j
          /\ Len(monthly_records[i].maintenance_logs) >= 1
          /\ Len(monthly_records[j].maintenance_logs) >= 1
          /\ Len(monthly_records[j].deferred_tasks) >= 1

----------------------------------------------------------------------------
(* The risk scorer over a family of graphs *)

Topology(order, edges, types) ==
    [nodes |-> SeqToSet(order), order |-> order, edges |-> edges, types |-> types]

RiskTopologies ==
    {Topology(<<P1>>, {}, (P1 :> "panelboard")),
     Topology(<<P1, L1>>, {<<P1, L1>>}, (P1 :> "panelboard") @@ (L1 :> "end_load")),
     Topology(<<T1, P1, L1>>, {<<T1, P1>>, <<P1, L1>>},
              (T1 :> "transformer") @@ (P1 :> "panelboard") @@ (L1 :> "end_load")),
     Topology(<<T1, P1, P2, L1>>, {<<T1, P1>>, <<P1, P2>>, <<P2, L1>>},
              (T1 :> "transformer") @@ (P1 :> "panelboard") @@ (P2 :> "panelboard")
              @@ (L1 :> "end_load")),
     Topology(<<T1, P1, P2, L1, L2>>, {<<T1, P1>>, <<T1, P2>>, <<P1, L1>>, <<P2, L2>>},
              (T1 :> "transformer") @@ (P1 :> "panelboard") @@ (P2 :> "panelboard")
              @@ (L1 :> "end_load") @@ (L2 :> "end_load")),
     Topology(<<T1, P1, P2, L1, L2>>, {<<T1, P1>>, <<P1, P2>>, <<P2, L1>>, <<T1, L2>>},
              (T1 :> "transformer") @@ (P1 :> "switchboard") @@ (P2 :> "panelboard")
              @@ (L1 :> "end_load") @@ (L2 :> "end_load"))}

LoadValues == {0, 2, 3, 5, 7}

(* the generator's propagated power: the load of the end loads at or below n *)
PropagatedLoad(topo, loads, n) ==
    LET g == [edges |-> topo.edges]
        below == ReachFrom(g, {n}, {n})
    IN SumOver({m \in below : topo.types[m] = END_LOAD}, loads)

RiskGraph(topo, loads, supplied) ==
    [nodes |-> topo.nodes,
     order |-> topo.order,
     edges |-> topo.edges,
     attrs |-> [n \in topo.nodes |->
                  Node(topo.types[n], 0 - 12, NoValue, 100,
                       IF supplied THEN PropagatedLoad(topo, loads, n) ELSE NoValue)]]

RiskGraphs ==
    {RiskGraph(topo, loads, supplied) :
        <<topo, loads, supplied>> \in RiskTopologies \X [{L1, L2} -> LoadValues] \X BOOLEAN}

InitRisk ==
    /\ InitWith(RiskGraphs, {<<>>}, {<<>>},
                {s \in AllSettings : s.time_budget = 0 /\ ~s.enable_budget_rollover
                                     /\ s.REPLACEMENT_THRESHOLD_YEARS = NoValue})

(* the driver's scoring pass alone, from a freshly supplied graph *)
ScoreGraph ==
    /\ pc = "start"
    /\ graph' = apply_risk_scores_to_graph(input_graph)
    /\ pc' = "scored"
    /\ UNCHANGED <<input_graph, config, maintenance_templates, repair_templates, tasks,
                   month, rollover_time_budget, rollover_money_budget, current,
                   monthly_records, random_state, run, first_run_records, peer>>

SpecRisk == InitRisk /\ [][ScoreGraph]_vars

(* C10: for every graph and node the written score is
   (norm_power + norm_descendants) / 2 and lies in [0, 1], with
   norm_power = propagated_power / total load (0 when the total is 0) and
   norm_descendants = filtered descendants / maximum filtered descendants
   (0 when no node has a distribution descendant) *)
C10_RiskScoreFormulaAndRange ==
    pc = "scored" =>
        \A n \in graph.nodes :
            LET r == graph.attrs[n].risk_score
                pp == IF input_graph.attrs[n].propagated_power = NoValue
                      THEN 0 ELSE input_graph.attrs[n].propagated_power
                tl == total_load(input_graph)
                d == filtered_descendants_count(input_graph, n)
                md == RawMaxDescendants(input_graph)
                np == IF tl # 0 THEN Rat(pp, tl) ELSE Rat(0, 1)
                nd == IF md # 0 THEN Rat(d, md) ELSE Rat(0, 1)
            IN /\ r.den > 0
               /\ 0 <= r.num
               /\ r.num <= r.den
               /\ RatEq(Rat(2 * r.num, r.den), RatSum(np, nd))

(* a scored node with part of the system load and some, but not the most,
   distribution descendants; its score is strictly inside (0, 1) *)
C10_Witness ==
    /\ pc = "scored"
    /\ \E n \in graph.nodes :
          /\ 0 < propagated_power(input_graph, n)
          /\ propagated_power(input_graph, n) < total_load(input_graph)
          /\ 0 < filtered_descendants_count(input_graph, n)
          /\ filtered_descendants_count(input_graph, n) < RawMaxDescendants(input_graph)
          /\ 0 < graph.attrs[n].risk_score.num
          /\ graph.attrs[n].risk_score.num < graph.attrs[n].risk_score.den

----------------------------------------------------------------------------
(* Risk score against a node's propagated power *)

RaisedPowers == {1, 4, 9, 20}

(* the same graph with node n's propagated_power attribute set to v *)
WithPower(g, n, v) == [g EXCEPT !.attrs[n].propagated_power = v]

(* C11: with the descendant count of a node unchanged, replacing the node's
   propagated_power by a larger value never gives it a smaller risk_score *)
C11_RiskMonotonicInPower ==
    pc = "scored" =>
        \A n \in graph.nodes : \A v \in RaisedPowers :
            v > propagated_power(input_graph, n) =>
                /\ filtered_descendants_count(WithPower(input_graph, n, v), n)
                       = filtered_descendants_count(input_graph, n)
                /\ RatLeq(graph.attrs[n].risk_score, risk_score(WithPower(input_graph, n, v), n))

(* a distribution node and an end load (whose power is part of the total load)
   both score strictly higher with a larger propagated_power *)
C11_Witness ==
    /\ pc = "scored"
    /\ \E n, m \in graph.nodes : \E v \in RaisedPowers :
          /\ graph.attrs[n].type # END_LOAD
          /\ graph.attrs[m].type = END_LOAD
          /\ 0 < propagated_power(input_graph, n)
          /\ 0 < propagated_power(input_graph, m)
          /\ propagated_power(input_graph, m) < total_load(input_graph)
          /\ v > propagated_power(input_graph, n)
          /\ v > propagated_power(input_graph, m)
          /\ RatLess(graph.attrs[n].risk_score, risk_score(WithPower(input_graph, n, v), n))
          /\ RatLess(graph.attrs[m].risk_score, risk_score(WithPower(input_graph, m, v), m))

----------------------------------------------------------------------------
(* The zero-budget scenario: one panelboard, nothing can be paid for *)

ZeroBudget == config.time_budget = 0 /\ config.money_budget = 0

ZeroBudgetPanelboard == ZeroBudget /\ input_graph = SinglePanelboard(100)

(* the catalog tasks due in month m when none has been executed before *)
DueBy(m) == {id \in DOMAIN Catalog : Catalog[id].next_due_date <= m}

(* due tasks counted month by month over the first i records *)
RECURSIVE DueCountUpTo(_)
DueCountUpTo(i) ==
    IF i = 0 THEN 0 ELSE Cardinality(DueBy(Records[i].month)) + DueCountUpTo(i - 1)

(* C12: with zero time and money budget on the single panelboard, in every
   month every due maintenance task is deferred and none is executed, and the
   node's deferred_task_count equals the number of due tasks, counted month by
   month up to that month *)
C12_ZeroBudgetDefersEveryDueTask ==
    ZeroBudgetPanelboard =>
        \A i \in RecordIndices :
            /\ Records[i].executed_tasks = <<>>
            /\ TaskIdsOf(Records[i].deferred_tasks) = DueBy(Records[i].month)
            /\ Len(Records[i].deferred_tasks) = Cardinality(DueBy(Records[i].month))
            /\ Records[i].graph.attrs[P1].deferred_task_count = DueCountUpTo(i)

(* the scenario has run to its last month with several tasks due each month *)
C12_Witness ==
    /\ ZeroBudgetPanelboard
    /\ pc = "done"
    /\ Len(monthly_records) = NumMonths
    /\ Cardinality(DueBy(0)) >= 2
    /\ monthly_records[NumMonths].graph.attrs[P1].deferred_task_count >= 2 * NumMonths

RecordedRul(i, n) == Records[i].graph.attrs[n].rul

RecordedRulFloor(i, n) == MinRul(config, Records[i].graph.attrs[n])

(* C13 as stated: in the zero-budget single-panelboard scenario the node's RUL
   strictly decreases from each month to the next *)
C13_RulStrictlyDecreases ==
    ZeroBudgetPanelboard =>
        \A i \in RecordIndices : i + 1 \in RecordIndices => RecordedRul(i + 1, P1) < RecordedRul(i, P1)

(* C13 amended: with zero budget a node's RUL never increases from one month to
   the next, and decreases strictly as long as it is above the floor
   MIN_RUL_RATIO x expected_lifespan; the scenario's panelboard is older than its
   expected lifespan, so its RUL is at the floor in every month *)
C13_RulDecreasesDownToFloor ==
    /\ ZeroBudget =>
          \A i \in RecordIndices : \A n \in NonIgnored(Records[i].graph) :
              i + 1 \in RecordIndices =>
                  \/ RecordedRul(i + 1, n) < RecordedRul(i, n)
                  \/ /\ RecordedRul(i + 1, n) = RecordedRul(i, n)
                     /\ RecordedRul(i, n) = RecordedRulFloor(i, n)
    /\ ZeroBudgetPanelboard =>
          \A i \in RecordIndices : RecordedRul(i, P1) = RecordedRulFloor(i, P1)

(* the scenario has run to its last month: the panelboard's elapsed operating
   time exceeds its expected lifespan and its RUL has not moved *)
C13_Witness ==
    /\ ZeroBudgetPanelboard
    /\ pc = "done"
    /\ Len(monthly_records) = NumMonths
    /\ ElapsedMonths(input_graph.attrs[P1], 0) > ExpectedLifespan(input_graph.attrs[P1])
    /\ RecordedRul(NumMonths, P1) = RecordedRul(1, P1)
    /\ monthly_records[NumMonths].graph.attrs[P1].deferred_task_count
           > monthly_records[1].graph.attrs[P1].deferred_task_count

----------------------------------------------------------------------------
(* Priority against cost *)

(* the month's available budget covers the task on its own *)
Covers(r, t) == t.time_cost <= r.time_budget /\ t.money_cost <= r.money_budget

CoversBoth(r, a, b) ==
    /\ a.time_cost + b.time_cost <= r.time_budget
    /\ a.money_cost + b.money_cost <= r.money_budget

Costlier(a, b) ==
    /\ a.time_cost >= b.time_cost
    /\ a.money_cost >= b.money_cost
    /\ (a.time_cost > b.time_cost \/ a.money_cost > b.money_cost)

HigherPriority(a, b) ==
    \/ a.is_replacement /\ ~b.is_replacement
    \/ a.is_replacement = b.is_replacement /\ a.priority < b.priority

(* the month has exactly the two candidates hi and lo, hi of higher priority and costlier *)
TwoCandidates(r, hi, lo) ==
    /\ Len(r.tasks_scheduled) = 2
    /\ SeqToSet(r.tasks_scheduled) = {hi, lo}
    /\ HigherPriority(hi, lo)
    /\ Costlier(hi, lo)

CandidatePairs(r) == SeqToSet(r.tasks_scheduled) \X SeqToSet(r.tasks_scheduled)

(* C14 as stated: when the budget covers only the cheaper of two candidates and
   the costlier one has higher priority, the costlier one executes and the
   cheaper one is deferred *)
C14_CostlierExecutesBeyondBudget ==
    \A i \in RecordIndices : \A p \in CandidatePairs(Records[i]) :
        LET r == Records[i]  hi == p[1]  lo == p[2] IN
        (TwoCandidates(r, hi, lo) /\ Covers(r, lo) /\ ~Covers(r, hi)) =>
            ExecutedIn(r, hi.task_id) /\ DeferredIn(r, lo.task_id)

(* C14 amended: of two candidates, hi of higher priority and costlier, hi
   executes and lo is deferred when the budget covers either alone but not both;
   when the budget does not cover hi, hi is deferred and never executed *)
C14_PriorityOrderWithinBudget ==
    \A i \in RecordIndices : \A p \in CandidatePairs(Records[i]) :
        LET r == Records[i]  hi == p[1]  lo == p[2] IN
        TwoCandidates(r, hi, lo) =>
            /\ (Covers(r, hi) /\ ~CoversBoth(r, hi, lo)) =>
                   ExecutedIn(r, hi.task_id) /\ DeferredIn(r, lo.task_id)
            /\ ~Covers(r, hi) =>
                   DeferredIn(r, hi.task_id) /\ ~ExecutedIn(r, hi.task_id)

(* one run shows both cases: a month whose budget covers only the cheaper task,
   and a later month, with rollover, whose budget covers either but not both *)
C14_Witness ==
    \E i, j \in RecordIndices :
        /\ i < j
        /\ \E p \in CandidatePairs(Records[i]) :
              /\ TwoCandidates(Records[i], p[1], p[2])
              /\ Covers(Records[i], p[2])
              /\ ~Covers(Records[i], p[1])
        /\ \E p \in CandidatePairs(Records[j]) :
              /\ TwoCandidates(Records[j], p[1], p[2])
              /\ Covers(Records[j], p[1])
              /\ ~CoversBoth(Records[j], p[1], p[2])
              /\ ExecutedIn(Records[j], p[1].task_id)

----------------------------------------------------------------------------
(* Candidates of the month *)

(* a node's condition when month record i was scheduled: conditions are written
   only by the scheduler, so it is the condition the previous record ended with *)
ConditionBefore(i, n) ==
    IF i = 1 THEN input_graph.attrs[n].current_condition
    ELSE Records[i - 1].graph.attrs[n].current_condition

(* position of the replacement task of template rt for node n in the scheduled list *)
ReplacementPositions(r, rt, n) ==
    {a \in 1..Len(r.tasks_scheduled) :
        /\ r.tasks_scheduled[a].is_replacement
        /\ r.tasks_scheduled[a].equipment_id = n
        /\ r.tasks_scheduled[a].template_id = rt.task_id}

RoutinePositions(r, n) ==
    {b \in 1..Len(r.tasks_scheduled) :
        ~r.tasks_scheduled[b].is_replacement /\ r.tasks_scheduled[b].equipment_id = n}

(* C15: in every month in which a node's condition is below a repair/replacement
   template's condition_level, tasks_scheduled holds a replacement task
   (is_replacement = true) for that node, placed ahead of every routine
   maintenance task of the same node *)
C15_ReplacementScheduledFirst ==
    \A i \in RecordIndices : \A n \in input_graph.nodes : \A k \in 1..Len(repair_templates) :
        LET rt == repair_templates[k] IN
        (rt.equipment_type = input_graph.attrs[n].type /\ ConditionBefore(i, n) < rt.condition_level) =>
            \E a \in ReplacementPositions(Records[i], rt, n) :
                \A b \in RoutinePositions(Records[i], n) : a < b

(* a replacement task triggered and deferred in one month is scheduled again the
   next month, both times ahead of routine tasks of the same node *)
C15_Witness ==
    \E i \in RecordIndices : \E n \in input_graph.nodes : \E k \in 1..Len(repair_templates) :
        /\ i + 1 \in RecordIndices
        /\ ConditionBefore(i, n) < repair_templates[k].condition_level
        /\ ConditionBefore(i + 1, n) < repair_templates[k].condition_level
        /\ ReplacementPositions(Records[i], repair_templates[k], n) # {}
        /\ ReplacementPositions(Records[i + 1], repair_templates[k], n) # {}
        /\ Cardinality(RoutinePositions(Records[i], n)) >= 2
        /\ RoutinePositions(Records[i + 1], n) # {}

(* the records before record i in which task id was executed *)
ExecutedBefore(i, id) == {j \in 1..(i - 1) : ExecutedIn(Records[j], id)}

(* the due date of recurring task id when month record i is scheduled: its
   frequency after its latest execution, or its first due date *)
DueDateBefore(i, id) ==
    IF ExecutedBefore(i, id) = {} THEN Catalog[id].next_due_date
    ELSE LET j == CHOOSE a \in ExecutedBefore(i, id) : \A b \in ExecutedBefore(i, id) : b <= a
         IN Records[j].month + Catalog[id].recommended_frequency_months

(* deferred in an earlier record and not executed since *)
DeferredBefore(i, id) ==
    \E j \in 1..(i - 1) :
        /\ DeferredIn(Records[j], id)
        /\ \A a \in (j + 1)..(i - 1) : ~ExecutedIn(Records[a], id)

AllDeferredIds(i) == UNION {TaskIdsOf(Records[j].deferred_tasks) : j \in 1..(i - 1)}

(* C16: each month's tasks_scheduled holds every recurring task that is due,
   every task deferred in an earlier month and not executed since, and a
   replacement task for every node whose condition is below a template's
   condition_level, whatever the outcome of the month *)
C16_ScheduledHoldsEveryCandidate ==
    \A i \in RecordIndices :
        /\ \A id \in DOMAIN Catalog :
              DueDateBefore(i, id) <= Records[i].month => ScheduledIn(Records[i], id)
        /\ \A id \in AllDeferredIds(i) :
              DeferredBefore(i, id) => ScheduledIn(Records[i], id)
        /\ \A n \in input_graph.nodes : \A k \in 1..Len(repair_templates) :
              (/\ repair_templates[k].equipment_type = input_graph.attrs[n].type
               /\ ConditionBefore(i, n) < repair_templates[k].condition_level) =>
                  ReplacementPositions(Records[i], repair_templates[k], n) # {}

(* a run with a replacement triggered in its first month and a later month that
   schedules both a task deferred the month before and a task executed earlier
   that has come due again *)
C16_Witness ==
    /\ Len(Records) >= 2
    /\ \E t \in SeqToSet(Records[1].tasks_scheduled) : t.is_replacement
    /\ \E i \in RecordIndices :
          /\ i > 1
          /\ \E id \in TaskIdsOf(Records[i].tasks_scheduled) : DeferredIn(Records[i - 1], id)
          /\ \E id \in TaskIdsOf(Records[i].tasks_scheduled) \cap DOMAIN Catalog :
                /\ ExecutedBefore(i, id) # {}
                /\ DueDateBefore(i, id) = Records[i].month
          /\ Len(Records[i].executed_tasks) >= 1
          /\ Len(Records[i].deferred_tasks) >= 1

----------------------------------------------------------------------------
(* Budgets and rollover in the monthly records *)

(* C17: the time_budget and money_budget recorded for a month are the totals:
   the configured monthly allocation plus the rollover recorded for that month *)
C17_RecordedBudgetsAreTotals ==
    \A i \in RecordIndices :
        /\ Records[i].time_budget = config.time_budget + Records[i].rollover_time_budget
        /\ Records[i].money_budget = config.money_budget + Records[i].rollover_money_budget

(* a month with rollover in both resources, so that the recorded budgets differ
   from the bare allocation *)
C17_Witness ==
    \E i \in RecordIndices :
        /\ Records[i].rollover_time_budget > 0
        /\ Records[i].rollover_money_budget > 0
        /\ Records[i].time_budget > config.time_budget
        /\ Records[i].money_budget > config.money_budget
        /\ Len(Records[i].executed_tasks) >= 1

(* C18: with rollover disabled both rollover budgets are 0 in every month and
   each month's available budgets are the configured allocation, whatever was
   left unspent before *)
C18_NoRolloverWhenDisabled ==
    ~config.enable_budget_rollover =>
        \A i \in RecordIndices :
            /\ Records[i].rollover_time_budget = 0
            /\ Records[i].rollover_money_budget = 0
            /\ Records[i].time_budget = config.time_budget
            /\ Records[i].money_budget = config.money_budget

(* rollover disabled, a month that leaves time and money unspent, and a month after it *)
C18_Witness ==
    /\ ~config.enable_budget_rollover
    /\ \E i \in RecordIndices :
          /\ i + 1 \in RecordIndices
          /\ TimeSpent(Records[i]) < Records[i].time_budget
          /\ MoneySpent(Records[i]) < Records[i].money_budget
          /\ Len(Records[i].executed_tasks) >= 1
          /\ Records[i + 1].time_budget = config.time_budget

(* C19: with rollover enabled the rollover is 0 in the first month, and in every
   later month it is the previous month's available budget minus the cost of the
   tasks executed in that month, for time and for money; it is never negative *)
C19_RolloverIsUnspentBudget ==
    config.enable_budget_rollover =>
        \A i \in RecordIndices :
            /\ Records[i].rollover_time_budget >= 0
            /\ Records[i].rollover_money_budget >= 0
            /\ i = 1 => Records[i].rollover_time_budget = 0 /\ Records[i].rollover_money_budget = 0
            /\ i > 1 =>
                  /\ Records[i].rollover_time_budget
                         = Records[i - 1].time_budget - TimeSpent(Records[i - 1])
                  /\ Records[i].rollover_money_budget
                         = Records[i - 1].money_budget - MoneySpent(Records[i - 1])

(* a month whose rollover exceeds one allocation, after months that spent
   part of their budget *)
C19_Witness ==
    /\ config.enable_budget_rollover
    /\ \E i \in RecordIndices :
          /\ i > 2
          /\ TimeSpent(Records[i - 1]) > 0
          /\ TimeSpent(Records[i - 2]) > 0
          /\ Records[i - 1].rollover_time_budget > 0
          /\ Records[i].rollover_time_budget > 0
          /\ Records[i].rollover_money_budget > config.money_budget

----------------------------------------------------------------------------
(* Topology of the graph snapshots *)

SameTopology(g, h) ==
    /\ g.nodes = h.nodes
    /\ g.edges = h.edges
    /\ g.order = h.order
    /\ DOMAIN g.attrs = DOMAIN h.attrs

(* C20: the node set, the edge set and the node identifiers of the working graph
   and of every month's graph snapshot equal those of the input graph *)
C20_TopologyNeverChanges ==
    /\ SameTopology(graph, input_graph)
    /\ \A i \in RecordIndices : SameTopology(Records[i].graph, input_graph)

(* a replacement task has executed on a node that has a feeder and a downstream node *)
C20_Witness ==
    \E i \in RecordIndices : \E k \in 1..Len(Records[i].executed_tasks) :
        LET t == Records[i].executed_tasks[k] IN
        /\ t.is_replacement
        /\ \E e \in input_graph.edges : e[1] = t.equipment_id
        /\ \E e \in input_graph.edges : e[2] = t.equipment_id
        /\ Len(Records) > i

----------------------------------------------------------------------------
(* Node attributes written by the engine *)

SuppliedFields ==
    {"type", "installation_date", "expected_lifespan", "replacement_cost",
     "current_condition", "propagated_power"}

NeverWrittenFields == {"type", "installation_date", "replacement_cost", "propagated_power"}

(* the node's attributes when month record i began *)
AttrsBefore(i, n) ==
    IF i = 1 THEN input_graph.attrs[n] ELSE Records[i - 1].graph.attrs[n]

ExecutedOn(r, n) ==
    {k \in 1..Len(r.executed_tasks) : r.executed_tasks[k].equipment_id = n}

(* C21 as stated: every supplied node attribute, including expected_lifespan and
   current_condition, is the same in every month's graph as in the input graph *)
C21_SuppliedAttributesUnchanged ==
    \A i \in RecordIndices : \A n \in input_graph.nodes : \A f \in SuppliedFields :
        Records[i].graph.attrs[n][f] = input_graph.attrs[n][f]

(* C21 amended: type, installation_date, replacement_cost and propagated_power
   are never changed; current_condition changes only in a month in which a task
   executes on the node, and expected_lifespan only in a month in which a
   repair/replacement task executes on the node *)
C21_OnlyExecutionWritesSuppliedAttributes ==
    \A i \in RecordIndices : \A n \in input_graph.nodes :
        LET r == Records[i]
            now == r.graph.attrs[n]
            before == AttrsBefore(i, n)
        IN /\ \A f \in NeverWrittenFields : now[f] = input_graph.attrs[n][f]
           /\ now.current_condition # before.current_condition => ExecutedOn(r, n) # {}
           /\ now.expected_lifespan # before.expected_lifespan =>
                  \E k \in ExecutedOn(r, n) : r.executed_tasks[k].is_replacement

(* a repair/replacement has raised a node's condition and expected lifespan, and
   a routine task has raised a condition in a later month *)
C21_Witness ==
    \E i, j \in RecordIndices : \E n \in input_graph.nodes :
        /\ i < j
        /\ Records[i].graph.attrs[n].current_condition > AttrsBefore(i, n).current_condition
        /\ Records[i].graph.attrs[n].expected_lifespan # AttrsBefore(i, n).expected_lifespan
        /\ \E k \in ExecutedOn(Records[i], n) : Records[i].executed_tasks[k].is_replacement
        /\ \E m \in input_graph.nodes :
              /\ Records[j].graph.attrs[m].current_condition > AttrsBefore(j, m).current_condition
              /\ \A k \in ExecutedOn(Records[j], m) : ~Records[j].executed_tasks[k].is_replacement

----------------------------------------------------------------------------
(* Runs over valid and out-of-range settings *)

MinRulRatios == {0 - 5, 0, 10, 100, 150}

ConfigSettings ==
    {Settings([rul EXCEPT !.MIN_RUL_RATIO = ratio], b[1], b[2], ro, seed) :
        <<rul, ratio, b, ro, seed>> \in
            RulSettings \X MinRulRatios \X {<<0, 0>>, <<2, 3>>} \X BOOLEAN \X Seeds}

InitConfig ==
    InitWith(InputGraphs,
             {m \in MaintenanceTemplateSets :
                 m[1].recommended_frequency_months = 1 /\ m[1].time_cost = 1},
             {r \in RepairTemplateSets : r[1].money_cost = 2},
             ConfigSettings)

NextConfig ==
    \/ RejectConfiguration
    \/ StartRun
    \/ UpdateRUL
    \/ UpdateRisk
    \/ ScheduleMonth
    \/ SimulateLogs
    \/ SnapshotMonth

SpecConfig == InitConfig /\ [][NextConfig]_vars

MinRulRatioOutOfRange == config.MIN_RUL_RATIO < 0 \/ config.MIN_RUL_RATIO > 100

(* C22: with MIN_RUL_RATIO outside [0,1] the run stops with a configuration
   error before the first month: no task is generated, no month is processed, no
   monthly record is produced and no node attribute is written *)
C22_OutOfRangeConfigurationRejected ==
    MinRulRatioOutOfRange =>
        /\ pc \in {"start", "config_error"}
        /\ monthly_records = <<>>
        /\ current = EmptyMonth
        /\ tasks = <<>>
        /\ month = 0
        /\ graph = input_graph

(* a run rejected for a ratio above 1 *)
C22_Witness ==
    /\ pc = "config_error"
    /\ config.MIN_RUL_RATIO > 100
    /\ monthly_records = <<>>

----------------------------------------------------------------------------
(* Ignored equipment types *)

RulFields == {"rul", "risk_level", "failure_probability", "flagged_for_replacement"}

Ignored(g) == {n \in g.nodes : g.attrs[n].type \in config.TYPES_TO_IGNORE}

RulFieldsAsSupplied(g) ==
    \A n \in Ignored(g) : \A f \in RulFields : g.attrs[n][f] = input_graph.attrs[n][f]

(* C23: for a node whose type is in TYPES_TO_IGNORE no rul, risk_level,
   failure_probability or flagged_for_replacement is written in any month *)
C23_IgnoredTypesNeverScored ==
    /\ RulFieldsAsSupplied(graph)
    /\ \A i \in RecordIndices : RulFieldsAsSupplied(Records[i].graph)

(* a finished run over a graph with an ignored end load, whose other nodes
   have had their RUL written *)
C23_Witness ==
    /\ pc = "done"
    /\ Ignored(graph) # {}
    /\ \A n \in Ignored(graph) : graph.attrs[n].rul = NoValue
    /\ \E n \in graph.nodes : n \notin Ignored(graph) /\ graph.attrs[n].rul # NoValue
    /\ \A i \in RecordIndices : \A n \in Ignored(graph) : Records[i].graph.attrs[n].risk_level = ""

----------------------------------------------------------------------------
(* Order and admission of the candidates *)

(* the risk score of the task's node in the month's graph *)
NodeRisk(r, t) == r.graph.attrs[t.equipment_id].risk_score

(* C24: in every month's tasks_scheduled every replacement/repair candidate
   precedes every routine candidate, among candidates of the same kind a lower
   priority number comes first, and among those of equal priority the
   candidate of the node with the higher risk_score comes first *)
C24_CandidatesInKeyOrder ==
    \A i \in RecordIndices :
        LET r == Records[i] IN
        \A a, b \in 1..Len(r.tasks_scheduled) :
            a < b =>
                LET x == r.tasks_scheduled[a]  y == r.tasks_scheduled[b] IN
                /\ y.is_replacement => x.is_replacement
                /\ x.is_replacement = y.is_replacement => x.priority <= y.priority
                /\ (x.is_replacement = y.is_replacement /\ x.priority = y.priority) =>
                       RatLeq(NodeRisk(r, y), NodeRisk(r, x))

(* a month with a replacement ahead of routine tasks, two priority levels, and
   a tie in priority decided by risk against the order of the nodes in the graph *)
C24_Witness ==
    \E i \in RecordIndices :
        LET r == Records[i] IN
        /\ \E a, b \in 1..Len(r.tasks_scheduled) :
              a < b /\ r.tasks_scheduled[a].is_replacement /\ ~r.tasks_scheduled[b].is_replacement
        /\ \E a, b \in 1..Len(r.tasks_scheduled) :
              /\ a < b
              /\ ~r.tasks_scheduled[a].is_replacement
              /\ r.tasks_scheduled[a].priority < r.tasks_scheduled[b].priority
        /\ \E a, b \in 1..Len(r.tasks_scheduled) :
              LET x == r.tasks_scheduled[a]  y == r.tasks_scheduled[b] IN
              /\ a < b
              /\ x.is_replacement = y.is_replacement
              /\ x.priority = y.priority
              /\ RatLess(NodeRisk(r, y), NodeRisk(r, x))
              /\ PosIn(input_graph.order, y.equipment_id) < PosIn(input_graph.order, x.equipment_id)

(* C25: in every month the executed tasks are a prefix of the sorted candidate
   list and the deferred tasks are the rest: once a candidate is deferred no
   candidate that sorts after it is executed, even one that would fit *)
C25_ExecutedIsPrefixOfSorted ==
    \A i \in RecordIndices :
        LET r == Records[i]
            k == Len(r.executed_tasks)
        IN /\ k <= Len(r.tasks_scheduled)
           /\ r.executed_tasks = SubSeq(r.tasks_scheduled, 1, k)
           /\ r.deferred_tasks = SubSeq(r.tasks_scheduled, k + 1, Len(r.tasks_scheduled))
           /\ \A a, b \in 1..Len(r.tasks_scheduled) :
                 (a < b /\ DeferredIn(r, r.tasks_scheduled[a].task_id)) =>
                     ~ExecutedIn(r, r.tasks_scheduled[b].task_id)

(* a month with budget left in which the first deferred candidate breaches it
   and a later candidate, deferred too, would have fitted in what is left *)
C25_Witness ==
    \E i \in RecordIndices :
        LET r == Records[i]
            k == Len(r.executed_tasks)
        IN /\ r.time_budget > 0
           /\ r.money_budget > 0
           /\ \E b \in (k + 2)..Len(r.tasks_scheduled) :
                 /\ TimeSpent(r) + r.tasks_scheduled[b].time_cost <= r.time_budget
                 /\ MoneySpent(r) + r.tasks_scheduled[b].money_cost <= r.money_budget
                 /\ DeferredIn(r, r.tasks_scheduled[b].task_id)

----------------------------------------------------------------------------
(* Task instances across the months *)

ScheduledEntry(r, id) == TaskWithId(r.tasks_scheduled, id)

RecurringExecutedIn(r) ==
    {r.executed_tasks[k].task_id : k \in {a \in 1..Len(r.executed_tasks) :
                                             ~r.executed_tasks[a].is_replacement}}

(* C26: a recurring task executed in a month gets next_due_date = execution date
   + recommended_frequency_months and deferred_count = 0; it is in no later
   month's tasks_scheduled before that date, and when it is scheduled again it
   carries that due date and a deferred_count of 0 *)
C26_ExecutionRearmsRecurringTask ==
    /\ pc \in {"logs", "snapshot"} =>
          \A id \in RecurringExecutedIn(current) :
              /\ tasks[id].next_due_date = month + tasks[id].recommended_frequency_months
              /\ tasks[id].deferred_count = 0
    /\ \A i, j \in RecordIndices : \A id \in RecurringExecutedIn(Records[i]) :
          LET due == Records[i].month + Catalog[id].recommended_frequency_months IN
          i < j =>
              /\ Records[j].month < due => ~ScheduledIn(Records[j], id)
              /\ (/\ ScheduledIn(Records[j], id)
                  /\ \A a \in (i + 1)..(j - 1) : ~ScheduledIn(Records[a], id)) =>
                     /\ Records[j].month >= due
                     /\ ScheduledEntry(Records[j], id).next_due_date = due
                     /\ ScheduledEntry(Records[j], id).deferred_count = 0

(* a task deferred, then executed, absent from the next month's candidates and
   scheduled again when its frequency has passed *)
C26_Witness ==
    \E i, j \in RecordIndices : \E id \in RecurringExecutedIn(Records[i]) :
        /\ j > i + 1
        /\ ScheduledEntry(Records[i], id).deferred_count > 0
        /\ \A a \in (i + 1)..(j - 1) : ~ScheduledIn(Records[a], id)
        /\ ScheduledIn(Records[j], id)
        /\ Records[j].month = Records[i].month + Catalog[id].recommended_frequency_months

DeferredOn(r, n) ==
    {k \in 1..Len(r.deferred_tasks) : r.deferred_tasks[k].equipment_id = n}

(* C27: a task deferred in a month has its deferred_count raised by exactly 1
   and its next_due_date left as it was, and its node's deferred_task_count is
   raised by exactly 1 for each of the node's tasks deferred that month *)
C27_DeferralCountsAndKeepsDueDate ==
    /\ pc \in {"logs", "snapshot"} =>
          \A k \in 1..Len(current.deferred_tasks) :
              LET t == current.deferred_tasks[k] IN
              /\ tasks[t.task_id].deferred_count = t.deferred_count + 1
              /\ tasks[t.task_id].next_due_date = t.next_due_date
    /\ \A i \in RecordIndices : \A n \in input_graph.nodes :
          Records[i].graph.attrs[n].deferred_task_count
              = AttrsBefore(i, n).deferred_task_count + Cardinality(DeferredOn(Records[i], n))
    /\ \A i \in RecordIndices : \A id \in TaskIdsOf(Records[i].deferred_tasks) :
          (i + 1 \in RecordIndices /\ ScheduledIn(Records[i + 1], id)) =>
              /\ ScheduledEntry(Records[i + 1], id).deferred_count
                     = ScheduledEntry(Records[i], id).deferred_count + 1
              /\ ScheduledEntry(Records[i + 1], id).next_due_date
                     = ScheduledEntry(Records[i], id).next_due_date

(* a recurring task with a frequency above one month deferred in two months
   running, on a node with two tasks deferred in the same month *)
C27_Witness ==
    \E i \in RecordIndices : \E id \in TaskIdsOf(Records[i].deferred_tasks) \cap DOMAIN Catalog :
        /\ i + 2 \in RecordIndices
        /\ Catalog[id].recommended_frequency_months > 1
        /\ DeferredIn(Records[i + 1], id)
        /\ ScheduledEntry(Records[i + 2], id).deferred_count = 2
        /\ Cardinality(DeferredOn(Records[i], Catalog[id].equipment_id)) >= 2

(* C28: a task deferred in a month is in the next month's tasks_scheduled, and
   so in every later month's until the first month in which it executes; with
   no execution it stays in the backlog as deferred *)
C28_DeferredTaskTrackedUntilExecuted ==
    /\ \A i \in RecordIndices : \A id \in TaskIdsOf(Records[i].deferred_tasks) :
          i + 1 \in RecordIndices => ScheduledIn(Records[i + 1], id)
    /\ \A i, j \in RecordIndices : \A id \in TaskIdsOf(Records[i].deferred_tasks) :
          (i < j /\ ~ScheduledIn(Records[j], id)) =>
              \E a \in (i + 1)..(j - 1) : ExecutedIn(Records[a], id)
    /\ pc \in {"logs", "snapshot"} =>
          \A id \in TaskIdsOf(current.deferred_tasks) :
              id \in DOMAIN tasks /\ tasks[id].status = "deferred"

(* a repair/replacement task deferred in one month and executed in the next,
   and a routine task deferred in both months and scheduled again in the third *)
C28_Witness ==
    \E i \in RecordIndices :
        /\ i + 2 \in RecordIndices
        /\ \E k \in 1..Len(Records[i].deferred_tasks) :
              LET t == Records[i].deferred_tasks[k] IN
              /\ t.is_replacement
              /\ ExecutedIn(Records[i + 1], t.task_id)
              /\ ~ScheduledIn(Records[i + 2], t.task_id)
        /\ \E id \in DOMAIN Catalog :
              /\ DeferredIn(Records[i], id)
              /\ DeferredIn(Records[i + 1], id)
              /\ ScheduledIn(Records[i + 2], id)

(* pending when month record i is scheduled: not yet due and not carried as deferred *)
PendingBefore(i, id) ==
    DueDateBefore(i, id) > Records[i].month /\ ~DeferredBefore(i, id)

(* C29: a recurring task that is pending in a month is not in that month's
   tasks_scheduled and is not executed; every executed recurring task was due or
   carried as deferred, and scheduled, in the month of its execution *)
C29_PendingTaskNeverScheduled ==
    \A i \in RecordIndices :
        /\ \A id \in DOMAIN Catalog :
              PendingBefore(i, id) =>
                  /\ ~ScheduledIn(Records[i], id)
                  /\ ~ExecutedIn(Records[i], id)
                  /\ ~DeferredIn(Records[i], id)
        /\ \A id \in RecurringExecutedIn(Records[i]) :
              /\ ScheduledIn(Records[i], id)
              /\ DueDateBefore(i, id) <= Records[i].month
              /\ ScheduledEntry(Records[i], id).next_due_date <= Records[i].month

(* a month in which an earlier-executed task is pending and left out while
   other tasks are scheduled, one of them executed *)
C29_Witness ==
    \E i \in RecordIndices : \E id \in DOMAIN Catalog :
        /\ PendingBefore(i, id)
        /\ ExecutedBefore(i, id) # {}
        /\ ~ScheduledIn(Records[i], id)
        /\ Len(Records[i].tasks_scheduled) >= 2
        /\ Len(Records[i].executed_tasks) >= 1

----------------------------------------------------------------------------
(* The task catalog as generated *)

(* the catalog is in `tasks` from the start of the run until the first scheduling *)
CatalogGenerated == pc \in {"rul", "risk", "schedule"} /\ month = 0

MatchingPairs ==
    {p \in (1..Len(maintenance_templates)) \X input_graph.nodes :
        maintenance_templates[p[1]].equipment_type = input_graph.attrs[p[2]].type}

InstancesOf(k, n) ==
    {id \in DOMAIN tasks :
        /\ tasks[id].template_id = maintenance_templates[k].task_id
        /\ tasks[id].equipment_id = n}

(* C30: the generated catalog has exactly one recurring instance per pair of a
   node and a maintenance template of the node's type, with id = template id
   concatenated with equipment id, and no two instances share an id; a template
   whose equipment_type no node has yields no instance; no repair/replacement
   instance is in the catalog *)
C30_OneInstancePerMatchingPair ==
    CatalogGenerated =>
        /\ \A k \in 1..Len(maintenance_templates) : \A n \in input_graph.nodes :
              Cardinality(InstancesOf(k, n)) = (IF <<k, n>> \in MatchingPairs THEN 1 ELSE 0)
        /\ Cardinality(DOMAIN tasks) = Cardinality(MatchingPairs)
        /\ \A id \in DOMAIN tasks :
              /\ tasks[id].task_id = id
              /\ id = tasks[id].template_id \o tasks[id].equipment_id
              /\ ~tasks[id].is_replacement
              /\ \E p \in MatchingPairs : id \in InstancesOf(p[1], p[2])
        /\ \A k \in 1..Len(maintenance_templates) :
              (\A n \in input_graph.nodes :
                   input_graph.attrs[n].type # maintenance_templates[k].equipment_type) =>
                  \A id \in DOMAIN tasks : tasks[id].template_id # maintenance_templates[k].task_id

(* the catalog of the riser graph: two panelboards sharing their templates, a
   template for a type the graph lacks, and a panelboard whose condition is
   below the repair template's condition_level *)
C30_Witness ==
    /\ CatalogGenerated
    /\ pc = "schedule"
    /\ Cardinality(DOMAIN tasks) >= 5
    /\ \E k \in 1..Len(maintenance_templates) :
          /\ Cardinality({p \in MatchingPairs : p[1] = k}) >= 2
    /\ \E k \in 1..Len(maintenance_templates) :
          \A n \in input_graph.nodes :
              input_graph.attrs[n].type # maintenance_templates[k].equipment_type
    /\ \E n \in input_graph.nodes : \E k \in 1..Len(repair_templates) :
          /\ repair_templates[k].equipment_type = input_graph.attrs[n].type
          /\ input_graph.attrs[n].current_condition < repair_templates[k].condition_level

----------------------------------------------------------------------------
(* Retirement of repair/replacement instances *)

(* the repair/replacement tasks executed in month record r *)
ReplacementsExecutedIn(r) ==
    {r.executed_tasks[k] : k \in {a \in 1..Len(r.executed_tasks) : r.executed_tasks[a].is_replacement}}

(* the trigger threshold of the template a repair/replacement task was made from *)
TriggerLevel(t) ==
    repair_templates[PosIn(TemplateIds(repair_templates), t.template_id)].condition_level

(* C31: a repair/replacement instance leaves the backlog in the month it
   executes; it is in a later month's tasks_scheduled only if, in some month
   after the execution, the node's condition was again below the template's
   condition_level *)
C31_ExecutedReplacementRetired ==
    /\ \A i, j \in RecordIndices : \A t \in ReplacementsExecutedIn(Records[i]) :
          (i < j /\ ScheduledIn(Records[j], t.task_id)) =>
              \E a \in (i + 1)..j : ConditionBefore(a, t.equipment_id) < TriggerLevel(t)
    /\ Len(Records) >= 1 =>
          \A t \in ReplacementsExecutedIn(Records[Len(Records)]) : t.task_id \notin DOMAIN tasks
    /\ \A id \in DOMAIN tasks : tasks[id].is_replacement => tasks[id].status = "deferred"

(* a partial repair: executed in one month, triggered and executed again in the
   next because the condition is still below the level, and absent from the
   third month's scheduled list, which holds routine tasks of the same node *)
C31_Witness ==
    \E i \in RecordIndices : \E t \in ReplacementsExecutedIn(Records[i]) :
        /\ i + 2 \in RecordIndices
        /\ ConditionBefore(i + 1, t.equipment_id) < TriggerLevel(t)
        /\ ExecutedIn(Records[i + 1], t.task_id)
        /\ ConditionBefore(i + 2, t.equipment_id) >= TriggerLevel(t)
        /\ ~ScheduledIn(Records[i + 2], t.task_id)
        /\ RoutinePositions(Records[i + 2], t.equipment_id) # {}

----------------------------------------------------------------------------
(* Risk levels around the RUL thresholds *)

(* months of baseline life left at the first simulated month: values at, just
   below and just above one, two, three, five and ten years *)
RemainingMonths == {10, 11, 12, 13, 23, 24, 25, 35, 36, 37, 59, 60, 61, 119, 120, 121, 130}

(* two panelboards in perfect condition with a default 20-year lifespan,
   feeding an end load *)
AgedPanelboards(left1, left2) ==
    [nodes |-> {P1, P2, L1},
     order |-> <<L1, P2, P1>>,
     edges |-> {<<P1, P2>>, <<P2, L1>>},
     attrs |-> [n \in {P1, P2, L1} |->
                  CASE n = P1 -> Node("panelboard", left1 - 240, NoValue, 100, 10)
                    [] n = P2 -> Node("panelboard", left2 - 240, NoValue, 100, 10)
                    [] n = L1 -> Node("end_load", 0 - 2, NoValue, 100, 10)]]

InitLevel ==
    InitWith({AgedPanelboards(a, b) : <<a, b>> \in RemainingMonths \X RemainingMonths},
             {<<>>}, {<<>>},
             {s \in AllSettings : s.time_budget = 0 /\ ~s.enable_budget_rollover})

(* the start of a run and its first RUL pass *)
NextLevel ==
    \/ StartRun
    \/ UpdateRUL

SpecLevel == InitLevel /\ [][NextLevel]_vars

Severity(level) ==
    CASE level = "CRITICAL" -> 3
      [] level = "HIGH" -> 2
      [] level = "MEDIUM" -> 1
      [] level = "LOW" -> 0

(* C32: every non-ignored node's written risk_level is CRITICAL exactly when
   rul <= CRITICAL_RUL_THRESHOLD_YEARS, otherwise HIGH when rul <=
   HIGH_RUL_THRESHOLD_YEARS, otherwise MEDIUM when rul <=
   MEDIUM_RUL_THRESHOLD_YEARS, otherwise LOW; of two nodes the one with the
   smaller rul never has the less severe level *)
C32_RiskLevelFromThresholds ==
    pc = "risk" =>
        /\ \A n \in NonIgnored(graph) :
              LET r == graph.attrs[n].rul
                  level == graph.attrs[n].risk_level
                  critical == config.CRITICAL_RUL_THRESHOLD_YEARS * 1200
                  high == config.HIGH_RUL_THRESHOLD_YEARS * 1200
                  medium == config.MEDIUM_RUL_THRESHOLD_YEARS * 1200
              IN /\ level \in {"CRITICAL", "HIGH", "MEDIUM", "LOW"}
                 /\ level = "CRITICAL" <=> r <= critical
                 /\ level = "HIGH" <=> (critical < r /\ r <= high)
                 /\ level = "MEDIUM" <=> (high < r /\ r <= medium)
                 /\ level = "LOW" <=> medium < r
        /\ \A a, b \in NonIgnored(graph) :
              graph.attrs[a].rul <= graph.attrs[b].rul =>
                  Severity(graph.attrs[a].risk_level) >= Severity(graph.attrs[b].risk_level)

(* one panelboard with rul exactly at the CRITICAL threshold, written CRITICAL,
   and one a month above it, written HIGH *)
C32_Witness ==
    /\ pc = "risk"
    /\ graph.attrs[P1].rul = config.CRITICAL_RUL_THRESHOLD_YEARS * 1200
    /\ graph.attrs[P1].risk_level = "CRITICAL"
    /\ graph.attrs[P2].rul = config.CRITICAL_RUL_THRESHOLD_YEARS * 1200 + 100
    /\ graph.attrs[P2].risk_level = "HIGH"

----------------------------------------------------------------------------
(* Risk scores in a graph without distribution descendants *)

(* no node has a descendant other than end loads *)
NoDistributionDescendants(g) ==
    \A n \in g.nodes : filtered_descendants_count(g, n) = 0

(* C33: in a graph in which no node has a non-end-load descendant the risk
   scorer gives every node norm_descendants = 0 with a non-zero divisor, and
   every written risk score is norm_power / 2 *)
C33_NoDescendantsGivesHalfNormPower ==
    (pc = "scored" /\ NoDistributionDescendants(input_graph)) =>
        \A n \in graph.nodes :
            LET r == graph.attrs[n].risk_score
                nd == norm_descendants(input_graph, n)
                pp == IF input_graph.attrs[n].propagated_power = NoValue
                      THEN 0 ELSE input_graph.attrs[n].propagated_power
                tl == total_load(input_graph)
            IN /\ nd.den # 0
               /\ nd.num = 0
               /\ r.den # 0
               /\ IF tl # 0 THEN RatEq(r, Rat(pp, 2 * tl)) ELSE r.num = 0

(* a scored panelboard feeding one end load: no distribution descendants, and
   the panelboard carries the whole load, so its score is exactly 1/2 *)
C33_Witness ==
    /\ pc = "scored"
    /\ NoDistributionDescendants(input_graph)
    /\ Cardinality(input_graph.nodes) >= 2
    /\ total_load(input_graph) > 0
    /\ \E n \in graph.nodes :
          /\ graph.attrs[n].type # END_LOAD
          /\ RatEq(graph.attrs[n].risk_score, Rat(1, 2))

----------------------------------------------------------------------------
(* The log simulator's effect *)

IsPrefix(a, b) == Len(a) <= Len(b) /\ SubSeq(b, 1, Len(a)) = a

(* a log entry of the month for an executed task, with a condition in [0, 1]
   rounded to one decimal *)
WellFormedLog(entry, t, date) ==
    /\ entry.date = date
    /\ entry.equipment_id = t.equipment_id
    /\ entry.condition \in 0..100
    /\ entry.condition % 10 = 0

(* C34: generating the month's synthetic logs only appends entries to
   maintenance_logs: no node attribute (current_condition included), no task
   and no other field of the month's record changes, and every logged
   condition lies in [0, 1] *)
C34_LogsAreAdditive ==
    [][pc = "logs" =>
          /\ graph' = graph
          /\ tasks' = tasks
          /\ monthly_records' = monthly_records
          /\ current' = [current EXCEPT !.maintenance_logs = current'.maintenance_logs]
          /\ IsPrefix(current.maintenance_logs, current'.maintenance_logs)
          /\ Len(current'.maintenance_logs) = Len(current.executed_tasks)
          /\ \A k \in 1..Len(current'.maintenance_logs) :
                WellFormedLog(current'.maintenance_logs[k], current.executed_tasks[k], month)]_vars

(* a month whose logs hold two entries, one of them with a sampled condition
   that differs from the node's condition, which the logs left as it was *)
C34_Witness ==
    /\ pc = "snapshot"
    /\ Len(current.maintenance_logs) >= 2
    /\ \E k \in 1..Len(current.maintenance_logs) :
          LET entry == current.maintenance_logs[k] IN
          /\ entry.condition # graph.attrs[entry.equipment_id].current_condition
          /\ entry.condition > 0
    /\ \E k \in 1..Len(current.maintenance_logs) :
          current.maintenance_logs[k].condition = 100

----------------------------------------------------------------------------
(* Cancelling a run between months *)

CancelRun_MidMonth ==
    /\ run = 2
    /\ pc = "logs"
    /\ pc' = "cancelled"
    /\ UNCHANGED <<input_graph, graph, config, maintenance_templates, repair_templates,
                   tasks, month, rollover_time_budget, rollover_money_budget, current,
                   monthly_records, random_state, run, first_run_records, peer>>

(* cancellation: the driver stops iterating months; it looks for the request
   before it starts the next month *)
CancelRun ==
    /\ run = 2
    /\ pc = "rul"
    /\ pc' = "cancelled"
    /\ UNCHANGED <<input_graph, graph, config, maintenance_templates, repair_templates,
                   tasks, month, rollover_time_budget, rollover_money_budget, current,
                   monthly_records, random_state, run, first_run_records, peer>>

(* a complete run, then a run over the same inputs that may be cancelled *)
NextCancel ==
    \/ StartRun
    \/ UpdateRUL
    \/ UpdateRisk
    \/ ScheduleMonth
    \/ SimulateLogs
    \/ SnapshotMonth
    \/ RunAgain
    \/ CancelRun

SpecCancel == InitDet /\ [][NextCancel]_vars

(* the graph, budgets and backlog are those the last committed record left *)
CommittedState ==
    IF monthly_records = <<>>
    THEN /\ graph = input_graph
         /\ rollover_time_budget = 0
         /\ rollover_money_budget = 0
         /\ tasks = Catalog
    ELSE LET r == monthly_records[Len(monthly_records)] IN
         /\ graph = r.graph
         /\ rollover_time_budget = carry_over(config, r.time_budget, TimeSpent(r))
         /\ rollover_money_budget = carry_over(config, r.money_budget, MoneySpent(r))
         /\ \A id \in TaskIdsOf(r.deferred_tasks) :
               id \in DOMAIN tasks /\ tasks[id].status = "deferred"
         /\ \A id \in DOMAIN tasks :
               /\ tasks[id].status = "deferred" <=> DeferredIn(r, id)
               /\ tasks[id].status = "executed" <=> ExecutedIn(r, id)

(* C35: a run cancelled after k months holds exactly k monthly records, equal
   to the first k records of the complete run over the same inputs, and its
   graph, budgets and backlog are those left by the k-th record; at every point
   of a run the records are those of the completed months, in order *)
C35_CancelledRunKeepsWholeMonths ==
    /\ pc = "cancelled" =>
          /\ Len(monthly_records) = month
          /\ month <= Len(first_run_records)
          /\ monthly_records = SubSeq(first_run_records, 1, month)
          /\ CommittedState
    /\ pc \in {"rul", "risk", "schedule", "logs", "snapshot", "done", "cancelled"} =>
          /\ Len(monthly_records) = month
          /\ \A i \in 1..Len(monthly_records) : monthly_records[i].month = i - 1

(* a run cancelled after two months in which tasks were executed and deferred
   and unspent budget was carried over, after a complete first run *)
C35_Witness ==
    /\ pc = "cancelled"
    /\ month = 2
    /\ Len(first_run_records) = NumMonths
    /\ Len(monthly_records[2].executed_tasks) >= 1
    /\ Len(monthly_records[2].deferred_tasks) >= 1
    /\ monthly_records[2].graph # monthly_records[1].graph
    /\ rollover_money_budget > 0

----------------------------------------------------------------------------
(* Two runs in one process *)

(* configurations of the two runs: both RUL settings, rollover enabled *)
ConcSettings(tb, mb) ==
    {Settings(rul, tb, mb, TRUE, seed) : <<rul, seed>> \in RulSettings \X Seeds}

(* the first run has the smaller budgets, the second the larger ones; their
   RUL settings are the same or differ *)
InitConc ==
    /\ InitRun({Riser(20)},
               {m \in MaintenanceTemplateSets :
                    m[1].time_cost = 1 /\ m[1].recommended_frequency_months = 1},
               {r \in RepairTemplateSets :
                    r[1].money_cost = 2 /\ r[1].condition_improvement_amount = 100},
               ConcSettings(2, 3))
    /\ peer \in {NewRun(cfg) : cfg \in ConcSettings(5, 6)}

(* the months of the two runs interleave in any order *)
NextConc ==
    \/ StartRun
    \/ UpdateRUL
    \/ UpdateRisk
    \/ ScheduleMonth
    \/ SimulateLogs
    \/ SnapshotMonth
    \/ PeerStart
    \/ PeerMonth

SpecConc == InitConc /\ [][NextConc]_vars

(* monthly records without their synthetic logs *)
WithoutLogs(records) ==
    [i \in 1..Len(records) |-> [records[i] EXCEPT !.maintenance_logs = <<>>]]

(* C36: of two runs whose months interleave, each on its own copy of the input
   graph, each ends with the monthly records it produces when it runs alone *)
C36_InterleavedRunsMatchAlone ==
    /\ pc = "done" =>
          monthly_records =
              run_alone(config, input_graph, maintenance_templates, repair_templates)
    /\ peer.pc = "done" =>
          peer.monthly_records =
              run_alone(peer.config, input_graph, maintenance_templates, repair_templates)

(* both runs finished, with different budgets and different RUL settings; the
   second run's records differ from those it produces alone, and only in
   their synthetic logs *)
C36_Witness ==
    /\ pc = "done"
    /\ peer.pc = "done"
    /\ peer.config.MIN_RUL_RATIO # config.MIN_RUL_RATIO
    /\ LET alone == run_alone(peer.config, input_graph, maintenance_templates,
                              repair_templates)
       IN /\ peer.monthly_records # alone
          /\ WithoutLogs(peer.monthly_records) = WithoutLogs(alone)

----------------------------------------------------------------------------
(* Termination and size of the backlog *)

InitLive ==
    InitWith(InputGraphs,
             {m \in MaintenanceTemplateSets :
                  m[1].time_cost = 1 /\ m[1].recommended_frequency_months = 1},
             {r \in RepairTemplateSets : r[1].money_cost = 2},
             {s \in AllSettings : s.REPLACEMENT_THRESHOLD_YEARS # NoValue})

(* the positions of the driver from which it goes on *)
RunningPositions == {"start", "rul", "risk", "schedule", "logs", "snapshot"}

(* the driver leaves its position *)
Advance == pc \in RunningPositions /\ pc' \in (RunningPositions \cup {"done"}) \ {pc}

(* the run is synchronous: no operation suspends, so the driver never stays
   at a position it can leave *)
SpecLive == InitLive /\ [][Next]_vars /\ WF_pc(Advance)

(* the pairs of a node and a repair/replacement template *)
RepairPairs == input_graph.nodes \X (1..Len(repair_templates))

MaxCandidates == Cardinality(DOMAIN Catalog) + Cardinality(RepairPairs)

(* C37: the run over the month range ends, with exactly one record per month
   in increasing month order without gaps; in every month tasks_scheduled
   holds at most as many tasks as there are recurring instances plus pairs of
   a node and a repair/replacement template, and so does the backlog *)
C37_TerminatesWithBoundedBacklog ==
    /\ <>(pc = "done" /\ Len(monthly_records) = NumMonths)
    /\ [](\A i \in 1..Len(monthly_records) : monthly_records[i].month = i - 1)
    /\ [](pc # "start" =>
             /\ Len(monthly_records) <= NumMonths
             /\ \A i \in RecordIndices : Len(Records[i].tasks_scheduled) <= MaxCandidates
             /\ Cardinality(DOMAIN tasks) <= MaxCandidates)

(* a finished run with a record for every month, in one of which the scheduled
   list is as long as the bound allows *)
C37_Witness ==
    /\ pc = "done"
    /\ Len(monthly_records) = NumMonths
    /\ \E i \in RecordIndices :
          /\ Len(Records[i].tasks_scheduled) = MaxCandidates
          /\ Len(Records[i].deferred_tasks) >= 1

----------------------------------------------------------------------------
(* Each task instance is a candidate once *)

IdsOf(ts) == [k \in 1..Len(ts) |-> ts[k].task_id]

(* the costs of the distinct task instances among ts *)
DistinctTimeCost(ts) ==
    SumOver(TaskIdsOf(ts), [id \in TaskIdsOf(ts) |-> TaskWithId(ts, id).time_cost])

DistinctMoneyCost(ts) ==
    SumOver(TaskIdsOf(ts), [id \in TaskIdsOf(ts) |-> TaskWithId(ts, id).money_cost])

(* C38: in every month tasks_scheduled, and so executed_tasks and
   deferred_tasks, holds each task instance at most once, also for a recurring
   task that is due and carried as deferred and for a repair/replacement task
   in the backlog whose trigger still holds; the month's spending counts each
   executed instance once *)
C38_EachCandidateOnce ==
    \A i \in RecordIndices :
        LET r == Records[i] IN
        /\ NoDuplicates(IdsOf(r.tasks_scheduled))
        /\ NoDuplicates(IdsOf(r.executed_tasks))
        /\ NoDuplicates(IdsOf(r.deferred_tasks))
        /\ TimeSpent(r) = DistinctTimeCost(r.executed_tasks)
        /\ MoneySpent(r) = DistinctMoneyCost(r.executed_tasks)

(* a month with a recurring task that is due again and still carried as
   deferred, and a repair/replacement task carried in the backlog while the
   node's condition is still below the template's level; the latter executes *)
C38_Witness ==
    \E i \in RecordIndices :
        /\ \E id \in DOMAIN Catalog :
              /\ DeferredBefore(i, id)
              /\ DueDateBefore(i, id) + Catalog[id].recommended_frequency_months
                     <= Records[i].month
              /\ ScheduledIn(Records[i], id)
        /\ \E k \in 1..Len(Records[i].tasks_scheduled) :
              LET t == Records[i].tasks_scheduled[k] IN
              /\ t.is_replacement
              /\ DeferredBefore(i, t.task_id)
              /\ ConditionBefore(i, t.equipment_id) < TriggerLevel(t)
              /\ ExecutedIn(Records[i], t.task_id)

----------------------------------------------------------------------------
(* Cumulative spending *)

RECURSIVE CumulativeTimeSpent(_)
CumulativeTimeSpent(n) == IF n = 0 THEN 0 ELSE TimeSpent(Records[n]) + CumulativeTimeSpent(n - 1)

RECURSIVE CumulativeMoneySpent(_)
CumulativeMoneySpent(n) ==
    IF n = 0 THEN 0 ELSE MoneySpent(Records[n]) + CumulativeMoneySpent(n - 1)

(* C39: after any number n of months the time_cost, and the money_cost, of
   all tasks executed so far is at most n times the monthly allocation, with
   rollover enabled or disabled *)
C39_SpendingWithinCumulativeAllocation ==
    \A n \in RecordIndices :
        /\ CumulativeTimeSpent(n) <= n * config.time_budget
        /\ CumulativeMoneySpent(n) <= n * config.money_budget

(* with rollover enabled, a month that spends more money than one monthly
   allocation, after which everything allocated so far has been spent *)
C39_Witness ==
    /\ config.enable_budget_rollover
    /\ \E n \in RecordIndices :
          /\ n >= 2
          /\ MoneySpent(Records[n]) > config.money_budget
          /\ CumulativeMoneySpent(n) = n * config.money_budget
          /\ CumulativeTimeSpent(n) > 0

====
